---- MODULE Spec2Model ----
(***************************************************************************)
(* Grooopy: the tab clustering engine (ClusteringEngine, clustering.js)    *)
(* as a state machine.  One run of clusterTabs goes through content        *)
(* extraction, embedding, the similarity matrix, agglomerative clustering, *)
(* the three singleton consolidation passes and metadata generation.       *)
(*                                                                         *)
(* Numbers.  The code computes in floating point.  Here an embedding       *)
(* component is an integer in units of 1/EmbScale (a unit vector has       *)
(* squared length EmbScale^2), and a similarity score is an integer in     *)
(* units of 1/One, One = EmbScale^2, so that a dot product of two          *)
(* embeddings is a score without any division.  An average is kept as the  *)
(* exact fraction total/count.  Array positions are 1-based here and       *)
(* 0-based in the code.                                                    *)
(*                                                                         *)
(* Strings.  A string the code splits (a hostname on '.', a pathname on    *)
(* '/', '-', '_', a title on non-word characters) is given as the sequence *)
(* of its pieces; StrLen gives the length of a piece.                      *)
(***************************************************************************)
EXTENDS Integers, Sequences, FiniteSets, TLC

VARIABLES
    tabs,              \* the tab list handed to clusterTabs
    screenWidth,       \* the screenWidth argument
    pc,                \* position of the run
    steps,             \* pipeline steps this run has performed so far
    extractor,         \* this.extractor: "null" or "loaded"
    enrichedTabs,      \* result of extractAndEnrichTabs
    tabVectors,        \* result of generateEmbeddings
    similarityMatrix,  \* result of buildSimilarityMatrix
    groupCapacity,     \* result of calculateGroupCapacity
    clusters,          \* the cluster list of clusterTabs / agglomerativeClustering
    singletons,        \* consolidateSingletons: singletons
    multiClusters,     \* consolidateSingletons: multiClusters
    singletonGroups,   \* clusterSingletonsTogether: clusters (then singletonGroups)
    orphans,           \* consolidateSingletons: orphans
    finalOrphans,      \* consolidateSingletons: finalOrphans
    k,                 \* position of the loop in progress
    result,            \* what clusterTabs returns
    probe,             \* inputs of a function applied on its own
    probeOut,          \* its outputs
    fault,             \* the embedding call that fails in this run, if any
    isGrouping,        \* TabManager.isGrouping
    runs,              \* the calls of regroupTabs, one per GROUP_NOW message
    requests,          \* CLUSTER_TABS messages not yet answered
    groupOf,           \* the browser: the tab group of each tab
    ungroups           \* the UNGROUP_ALL messages received, and how far each handler is

vars == <<tabs, screenWidth, pc, steps, extractor, enrichedTabs, tabVectors,
          similarityMatrix, groupCapacity, clusters, singletons, multiClusters,
          singletonGroups, orphans, finalOrphans, k, result, probe, probeOut,
          fault, isGrouping, runs, requests, groupOf, ungroups>>

\* the state of the background page and of the browser
mgrVars == <<isGrouping, runs, requests, groupOf, ungroups>>

----------------------------------------------------------------------------
(* Bounds of the model *)

\* longest tab list taken in every order
MaxTabs == 4

\* longest tab list taken in catalogue order
MaxSortedTabs == 7

----------------------------------------------------------------------------
(* Fixed point and the configuration (constructor, this.config) *)

EmbScale == 3000

One == EmbScale * EmbScale

CONTENT_SIMILARITY_THRESHOLD == (38 * One) \div 100

DOMAIN_AFFINITY_BOOST == (15 * One) \div 100

URL_PATH_BOOST == (8 * One) \div 100

SINGLETON_ABSORPTION_THRESHOLD == (25 * One) \div 100

SINGLETON_CLUSTER_THRESHOLD == (33 * One) \div 100

MIN_ORPHANS_FOR_MISC == 3

PIXELS_PER_GROUP == 130

MIN_GROUPS == 2

MAX_GROUPS == 10

----------------------------------------------------------------------------
(* Helpers standing for JavaScript built-ins *)

Min(a, b) == IF a <= b THEN a ELSE b

Max(a, b) == IF a >= b THEN a ELSE b

\* const x = value; rest: the value is computed once and rest reads it as x
LetConst(value, Rest(_)) == CHOOSE r \in {Rest(x) : x \in {value}} : TRUE

\* Array.prototype.includes
Includes(seq, x) == \E i \in 1..Len(seq) : seq[i] = x

\* Array.prototype.slice(0, n)
Slice(seq, n) == SubSeq(seq, 1, Min(n, Len(seq)))

\* Array.prototype.flatMap over a sequence of sequences
RECURSIVE Flatten(_)
Flatten(seqs) ==
    IF seqs = <<>> THEN <<>> ELSE Head(seqs) \o Flatten(Tail(seqs))

\* new Set([...]): the elements in first-insertion order, without repeats
RECURSIVE Dedup(_)
Dedup(seq) ==
    IF seq = <<>> THEN <<>>
    ELSE LET front == Dedup(SubSeq(seq, 1, Len(seq) - 1))
             last == seq[Len(seq)]
         IN IF Includes(front, last) THEN front ELSE Append(front, last)

\* String.prototype.length over the strings of the model
StrLen(s) ==
    CASE s \in {""} -> 0
      [] s \in {"a", "b"} -> 1
      [] s \in {"ab", "io", "v2", "co"} -> 2
      [] s \in {"www", "com", "org", "api", "the", "del", "net", "faq"} -> 3
      [] s \in {"docs", "news", "blog", "tips", "misc", "soup", "echo", "golf", "kilo",
                "lima", "mike", "papa"} -> 4
      [] s \in {"react", "hooks", "state", "intro", "bread", "guide", "lorem",
                "alpha", "bravo", "delta", "hotel", "india", "oscar", "romeo",
                "tango"} -> 5
      [] s \in {"router", "baking", "recipe", "juliet", "quebec", "sierra"} -> 6
      [] s \in {"reactjs", "example", "cooking", "kitchen", "charlie", "foxtrot"} -> 7
      [] s \in {"november"} -> 8
      [] OTHER -> 10

\* Math.sqrt on a non-negative integer, rounded down
RECURSIVE SqrtIter(_, _)
SqrtIter(x, r) ==
    LetConst((r + (x \div r)) \div 2, LAMBDA r2 :
        IF r2 >= r THEN r ELSE SqrtIter(x, r2))

\* Newton's iteration from above; 46340 is the largest root of a 32-bit integer
Sqrt(x) == IF x <= 0 THEN 0 ELSE SqrtIter(x, Min(x, 46340))

\* a / b rounded to the nearest integer, b > 0
RoundDiv(a, b) ==
    IF a >= 0 THEN (2 * a + b) \div (2 * b) ELSE 0 - ((2 * (0 - a) + b) \div (2 * b))

----------------------------------------------------------------------------
(* The embedding model (an external collaborator): unit vectors *)

\* this.embeddingDim, cut down from 384
EmbDim == 10

\* the unit vector a/EmbScale, b/EmbScale in the plane of the first two axes
Vec2(a, b) == [n \in 1..EmbDim |-> IF n = 1 THEN a ELSE IF n = 2 THEN b ELSE 0]

\* the unit vector along axis i
Axis(i) == [n \in 1..EmbDim |-> IF n = i THEN EmbScale ELSE 0]

VecX == Vec2(EmbScale, 0)

VecY == Vec2(0, EmbScale)

VecZ == Axis(3)

\* cosine 0.352 with VecX, 0.936 with VecY
VecYp == Vec2(1056, 2808)

VecNegX == Vec2(0 - EmbScale, 0)

VecNegY == Vec2(0, 0 - EmbScale)

\* cosine 0.8 with VecX, 0.6 with VecY
VecXY == Vec2(2400, 1800)

\* ten topics with nothing in common
Topics ==
    <<"alpha", "bravo", "charlie", "delta", "echo", "foxtrot", "golf", "hotel", "india",
      "juliet">>

TopicIndex(w) == CHOOSE i \in 1..Len(Topics) : Topics[i] = w

\* the unit vector with a/EmbScale along the first axis and b/EmbScale along axis i
Lean(a, b, i) == [n \in 1..EmbDim |-> IF n = 1 THEN a ELSE IF n = i THEN b ELSE 0]

\* five texts on one subject: pairwise cosines between 0.336 and 0.372
Kin == <<"kilo", "lima", "mike", "november", "oscar">>

KinVec(w) ==
    CASE w = "kilo" -> Lean(1740, 2444, 2)
      [] w = "lima" -> Lean(1800, 2400, 3)
      [] w = "mike" -> Lean(1800, 2400, 4)
      [] w = "november" -> Lean(1860, 2354, 5)
      [] w = "oscar" -> Lean(1740, 2444, 6)

\* five texts for Pass 1: papa and quebec have a cosine of 0.2; tango has a cosine
\* of 0.35 with romeo and with sierra, which have nothing in common; the two groups
\* have nothing in common
Pals == <<"papa", "quebec", "romeo", "sierra", "tango">>

PalVec(w) ==
    CASE w = "papa" -> Axis(1)
      [] w = "quebec" -> Lean(600, 2939, 2)
      [] w = "romeo" -> Axis(3)
      [] w = "sierra" -> Axis(4)
      [] w = "tango" -> [n \in 1..EmbDim |-> IF n \in {3, 4} THEN 1050
                                             ELSE IF n = 5 THEN 2607 ELSE 0]

\* the extractor applied to one word
WordVec(w) ==
    CASE w \in {"react", "reactjs", "state", "router"} -> VecX
      [] w \in {"hooks", "intro"} -> VecXY
      [] w \in {"baking", "bread", "cooking", "recipe", "soup"} -> VecY
      [] w \in {"kitchen", "tips", "blog", "example"} -> VecYp
      [] w \in {"extensions"} -> VecNegX
      [] w \in {"news"} -> VecNegY
      [] Includes(Topics, w) -> Axis(TopicIndex(w))
      [] Includes(Kin, w) -> KinVec(w)
      [] Includes(Pals, w) -> PalVec(w)
      [] OTHER -> VecZ

\* the extractor applied to a text (pooling: 'mean', normalize: true)
Extractor(text) ==
    CASE text = <<>> -> VecZ
      [] text = <<"react", "hooks">> -> VecX
      [] text = <<"baking", "bread">> -> VecY
      [] text = <<"baking", "bread", "recipe">> -> VecY
      [] text = <<"kitchen", "tips">> -> VecYp
      [] OTHER -> WordVec(text[1])

\* getEmbedding(text)
getEmbedding(text) == Extractor(text)

----------------------------------------------------------------------------
(* URL/Text featurizer *)

\* the literal catch-branch value of parseUrl
EmptyUrl == [domain |-> <<"">>, baseDomain |-> <<"">>, pathTokens |-> <<>>]

\* hostname.replace(/^www\./, '') on the labels of a hostname
StripWww(labels) ==
    IF Len(labels) >= 2 /\ labels[1] = "www" THEN Tail(labels) ELSE labels

\* parseUrl without .slice(0, 5)
parseUrlNoSlice(url) ==
    IF ~(url.present /\ url.valid) THEN EmptyUrl
    ELSE LET hostname == StripWww(url.hostname)
             parts == hostname
         IN [domain |-> hostname,
             baseDomain |-> IF Len(parts) >= 2
                            THEN SubSeq(parts, Len(parts) - 1, Len(parts))
                            ELSE hostname,
             pathTokens |-> SelectSeq(url.pathname, LAMBDA t : StrLen(t) > 2)]

\* parseUrl(urlString): new URL() throws on a missing or malformed URL
parseUrl(url) ==
    IF ~(url.present /\ url.valid) THEN EmptyUrl
    ELSE LET hostname == StripWww(url.hostname)
             parts == hostname
         IN [domain |-> hostname,
             baseDomain |-> IF Len(parts) >= 2
                            THEN SubSeq(parts, Len(parts) - 1, Len(parts))
                            ELSE hostname,
             pathTokens |-> Slice(SelectSeq(url.pathname, LAMBDA t : StrLen(t) > 2), 5)]

\* one iteration of the loop of extractAndEnrichTabs
EnrichTab(tab) ==
    LET url == parseUrl(tab.url)
        scriptable == tab.url.present /\ tab.url.scheme \notin {"chrome", "edge"}
        content == IF scriptable /\ tab.page.ok THEN tab.page.text ELSE tab.title
    IN [tab |-> tab, content |-> content, domain |-> url.domain,
        baseDomain |-> url.baseDomain, pathTokens |-> url.pathTokens]

extractAndEnrichTabs(ts) == [i \in 1..Len(ts) |-> EnrichTab(ts[i])]

\* generateEmbeddings(enrichedTabs): {...item, embedding}
generateEmbeddings(enriched) ==
    [i \in 1..Len(enriched) |->
        [tab |-> enriched[i].tab, content |-> enriched[i].content,
         domain |-> enriched[i].domain, baseDomain |-> enriched[i].baseDomain,
         pathTokens |-> enriched[i].pathTokens,
         embedding |-> getEmbedding(enriched[i].content)]]

----------------------------------------------------------------------------
(* Similarity scorer *)

RECURSIVE DotFrom(_, _, _)
DotFrom(v1, v2, i) ==
    IF i > Len(v1) THEN 0 ELSE v1[i] * v2[i] + DotFrom(v1, v2, i + 1)

\* cosineSimilarity(v1, v2): the dot product, in units of 1/One
cosineSimilarity(v1, v2) == DotFrom(v1, v2, 1)

\* tab1.pathTokens.filter(t => tab2.pathTokens.includes(t))
CommonTokens(tab1, tab2) ==
    SelectSeq(tab1.pathTokens, LAMBDA t : Includes(tab2.pathTokens, t))

\* computePairwiseSimilarity that gives no domain boost to tabs without a domain
computePairwiseSimilarityKnownDomains(tab1, tab2) ==
    LET semanticSim == cosineSimilarity(tab1.embedding, tab2.embedding)
        domainBoost == IF tab1.domain = <<"">> \/ tab2.domain = <<"">> THEN 0
                       ELSE IF tab1.domain = tab2.domain THEN DOMAIN_AFFINITY_BOOST
                       ELSE IF tab1.baseDomain = tab2.baseDomain
                            THEN DOMAIN_AFFINITY_BOOST \div 2
                            ELSE 0
        commonTokens == CommonTokens(tab1, tab2)
        longest == Max(Max(Len(tab1.pathTokens), Len(tab2.pathTokens)), 1)
        pathBoost == IF Len(commonTokens) > 0
                     THEN (URL_PATH_BOOST * Min(longest, Len(commonTokens))) \div longest
                     ELSE 0
    IN semanticSim + domainBoost + pathBoost

\* computePairwiseSimilarity(tab1, tab2)
computePairwiseSimilarity(tab1, tab2) ==
    LET semanticSim == cosineSimilarity(tab1.embedding, tab2.embedding)
        domainBoost == IF tab1.domain = tab2.domain THEN DOMAIN_AFFINITY_BOOST
                       ELSE IF tab1.baseDomain = tab2.baseDomain
                            THEN DOMAIN_AFFINITY_BOOST \div 2
                            ELSE 0
        commonTokens == CommonTokens(tab1, tab2)
        longest == Max(Max(Len(tab1.pathTokens), Len(tab2.pathTokens)), 1)
        pathBoost == IF Len(commonTokens) > 0
                     THEN (URL_PATH_BOOST * Min(longest, Len(commonTokens))) \div longest
                     ELSE 0
    IN semanticSim + domainBoost + pathBoost

\* buildSimilarityMatrix scoring every ordered pair on its own
buildSimilarityMatrixBothWays(tv) ==
    [i \in 1..Len(tv) |-> [j \in 1..Len(tv) |->
        IF i # j THEN computePairwiseSimilarity(tv[i], tv[j]) ELSE 0]]

\* buildSimilarityMatrix(tabVectors): only pairs i < j are computed, then mirrored
buildSimilarityMatrix(tv) ==
    [i \in 1..Len(tv) |-> [j \in 1..Len(tv) |->
        IF i < j THEN computePairwiseSimilarity(tv[i], tv[j])
        ELSE IF j < i THEN computePairwiseSimilarity(tv[j], tv[i])
        ELSE 0]]

----------------------------------------------------------------------------
(* Agglomerative clusterer *)

\* computeCentroid(embeddings)
computeCentroid(embeddings) ==
    IF Len(embeddings) = 0 THEN <<>>
    ELSE IF Len(embeddings) = 1 THEN embeddings[1]
    ELSE LET dim == Len(embeddings[1])
             SumAt(i) ==
                 LET S[n \in 0..Len(embeddings)] ==
                         IF n = 0 THEN 0 ELSE S[n - 1] + embeddings[n][i]
                 IN S[Len(embeddings)]
         IN LetConst([i \in 1..dim |-> SumAt(i)], LAMBDA sum :
            LetConst(Sqrt(DotFrom(sum, sum, 1)), LAMBDA mag :
                IF mag > 0 THEN [i \in 1..dim |-> RoundDiv(sum[i] * EmbScale, mag)]
                ELSE sum))

\* the initial cluster of agglomerativeClustering for tabVectors[idx]
SingletonCluster(tv, idx) ==
    [indices |-> <<idx>>, items |-> <<tv>>, embeddings |-> <<tv.embedding>>,
     domains |-> <<tv.domain>>, centroid |-> tv.embedding, isMisc |-> FALSE]

\* mergeClusters that returns its first argument
mergeClustersKeepsFirst(c1, c2) == c1

\* mergeClusters(c1, c2)
mergeClusters(c1, c2) ==
    [indices |-> c1.indices \o c2.indices,
     items |-> c1.items \o c2.items,
     embeddings |-> c1.embeddings \o c2.embeddings,
     domains |-> Dedup(c1.domains \o c2.domains),
     centroid |-> computeCentroid(c1.embeddings \o c2.embeddings),
     isMisc |-> FALSE]

\* computeAdaptiveThreshold with Math.max(0.85, ...) forgotten
computeAdaptiveThresholdNoFloor(tabCount, targetGroups) ==
    LET base == CONTENT_SIMILARITY_THRESHOLD
        scaleFactor == 100 - (tabCount - 10)
    IN (base * scaleFactor) \div 100

\* computeAdaptiveThreshold scaling from 20 tabs on instead of 10
computeAdaptiveThresholdFromTwenty(tabCount, targetGroups) ==
    LET base == CONTENT_SIMILARITY_THRESHOLD
        scaleFactor == Max(85, 100 - (tabCount - 20))
    IN (base * scaleFactor) \div 100

\* computeAdaptiveThreshold(tabCount, targetGroups); scaleFactor in hundredths
computeAdaptiveThreshold(tabCount, targetGroups) ==
    LET base == CONTENT_SIMILARITY_THRESHOLD
        scaleFactor == Max(85, 100 - (tabCount - 10))
    IN (base * scaleFactor) \div 100

\* the average linkage of two clusters as the fraction total / count
AvgSim(c1, c2, matrix) ==
    LET pairs == {<<a, b>> \in (1..Len(c1.indices)) \X (1..Len(c2.indices)) : TRUE}
        RECURSIVE Total(_)
        Total(S) == IF S = {} THEN 0
                    ELSE LET p == CHOOSE q \in S : TRUE
                         IN matrix[c1.indices[p[1]]][c2.indices[p[2]]] + Total(S \ {p})
    IN [total |-> Total(pairs), count |-> Cardinality(pairs)]

\* a > b for two averages; count = 0 stands for -Infinity
AvgGreater(a, b) ==
    IF b.count = 0 THEN a.count # 0
    ELSE a.count # 0 /\ a.total * b.count > b.total * a.count

\* AvgBelow with the test forgotten: the loop merges down to the target
AvgBelowNever(a, threshold) == FALSE

\* AvgBelow that always holds: the loop stops at its first test
AvgBelowAlways(a, threshold) == TRUE

\* similarity < threshold for an average
AvgBelow(a, threshold) == a.count = 0 \/ a.total < threshold * a.count

NegInfinity == [total |-> 0, count |-> 0]

\* the inner loop of findBestMerge for cluster i, from j on, best being the best so far
RECURSIVE FindBestInRow(_, _, _, _, _)
FindBestInRow(cl, matrix, i, j, best) ==
    IF j > Len(cl) THEN best
    ELSE LetConst(LET avgSim == AvgSim(cl[i], cl[j], matrix)
                  IN IF AvgGreater(avgSim, best.similarity)
                     THEN [i |-> i, j |-> j, similarity |-> avgSim]
                     ELSE best,
                  LAMBDA next : FindBestInRow(cl, matrix, i, j + 1, next))

\* the outer loop of findBestMerge from cluster i on
RECURSIVE FindBestFrom(_, _, _, _)
FindBestFrom(cl, matrix, i, best) ==
    IF i > Len(cl) THEN best
    ELSE LetConst(FindBestInRow(cl, matrix, i, i + 1, best),
                  LAMBDA rowBest : FindBestFrom(cl, matrix, i + 1, rowBest))

\* findBestMerge with the comparison forgotten: the first pair is returned
findFirstPair(cl, matrix) ==
    IF Len(cl) < 2 THEN [i |-> 0, j |-> 0, similarity |-> NegInfinity]
    ELSE [i |-> 1, j |-> 2, similarity |-> AvgSim(cl[1], cl[2], matrix)]

\* the inner loop of findBestMerge with >= for >
RECURSIVE FindLastBestInRow(_, _, _, _, _)
FindLastBestInRow(cl, matrix, i, j, best) ==
    IF j > Len(cl) THEN best
    ELSE LetConst(LET avgSim == AvgSim(cl[i], cl[j], matrix)
                  IN IF ~AvgGreater(best.similarity, avgSim)
                     THEN [i |-> i, j |-> j, similarity |-> avgSim]
                     ELSE best,
                  LAMBDA next : FindLastBestInRow(cl, matrix, i, j + 1, next))

\* the scan of findBestMerge with >= for >: the last of the best pairs wins
RECURSIVE FindLastBestFrom(_, _, _, _)
FindLastBestFrom(cl, matrix, i, best) ==
    IF i > Len(cl) THEN best
    ELSE LetConst(FindLastBestInRow(cl, matrix, i, i + 1, best),
                  LAMBDA rowBest : FindLastBestFrom(cl, matrix, i + 1, rowBest))

findLastBestMerge(cl, matrix) ==
    FindLastBestFrom(cl, matrix, 1, [i |-> 0, j |-> 0, similarity |-> NegInfinity])

\* findBestMerge(clusters, originalMatrix); i = j = 0 stands for -1
findBestMerge(cl, matrix) ==
    FindBestFrom(cl, matrix, 1, [i |-> 0, j |-> 0, similarity |-> NegInfinity])

\* the filter with idx !== j forgotten: the second cluster of the pair stays
RemovePairKeepsSecond(cl, i, j) ==
    LET keep == SelectSeq([n \in 1..Len(cl) |-> n], LAMBDA n : n # i)
    IN [n \in 1..Len(keep) |-> cl[keep[n]]]

\* clusters.filter((_, idx) => idx !== i && idx !== j)
RemovePair(cl, i, j) ==
    LET keep == SelectSeq([n \in 1..Len(cl) |-> n], LAMBDA n : n # i /\ n # j)
    IN [n \in 1..Len(keep) |-> cl[keep[n]]]

\* calculateGroupCapacity with the cap by the tab count forgotten
calculateGroupCapacityNoTabCap(width, tabCount) ==
    LET estimated == width \div PIXELS_PER_GROUP
    IN Max(MIN_GROUPS, Min(MAX_GROUPS, estimated))

\* calculateGroupCapacity with the clamp forgotten
calculateGroupCapacityNoClamp(width, tabCount) ==
    LET estimated == width \div PIXELS_PER_GROUP
        maxForTabs == Max(2, (tabCount + 1) \div 2)
    IN Min(estimated, maxForTabs)

\* calculateGroupCapacity(screenWidth, tabCount)
calculateGroupCapacity(width, tabCount) ==
    LET estimated == width \div PIXELS_PER_GROUP
        clamped == Max(MIN_GROUPS, Min(MAX_GROUPS, estimated))
        maxForTabs == Max(2, (tabCount + 1) \div 2)
    IN Min(clamped, maxForTabs)

----------------------------------------------------------------------------
(* Singleton consolidator *)

\* absorbIntoCluster with the last line forgotten: the centroid is not recomputed
absorbKeepsCentroid(source, target) ==
    [indices |-> target.indices \o source.indices,
     items |-> target.items \o source.items,
     embeddings |-> target.embeddings \o source.embeddings,
     domains |-> Dedup(target.domains \o source.domains),
     centroid |-> target.centroid,
     isMisc |-> target.isMisc]

\* absorbIntoCluster that assigns where it should push: the target's members are
\* replaced by the source's
absorbReplacesMembers(source, target) ==
    [indices |-> source.indices,
     items |-> source.items,
     embeddings |-> source.embeddings,
     domains |-> Dedup(target.domains \o source.domains),
     centroid |-> computeCentroid(source.embeddings),
     isMisc |-> target.isMisc]

\* absorbIntoCluster(source, target): the target after the call
absorbIntoCluster(source, target) ==
    LET embeddings == target.embeddings \o source.embeddings
    IN [indices |-> target.indices \o source.indices,
        items |-> target.items \o source.items,
        embeddings |-> embeddings,
        domains |-> Dedup(target.domains \o source.domains),
        centroid |-> computeCentroid(embeddings),
        isMisc |-> target.isMisc]

\* cloneCluster(cluster)
cloneCluster(cluster) ==
    [indices |-> cluster.indices, items |-> cluster.items,
     embeddings |-> cluster.embeddings, domains |-> cluster.domains,
     centroid |-> cluster.centroid, isMisc |-> FALSE]

\* createMiscCluster(orphans)
createMiscCluster(orph) ==
    [indices |-> Flatten([n \in 1..Len(orph) |-> orph[n].indices]),
     items |-> Flatten([n \in 1..Len(orph) |-> orph[n].items]),
     embeddings |-> Flatten([n \in 1..Len(orph) |-> orph[n].embeddings]),
     domains |-> Dedup(Flatten([n \in 1..Len(orph) |-> orph[n].domains])),
     centroid |-> computeCentroid(Flatten([n \in 1..Len(orph) |-> orph[n].embeddings])),
     isMisc |-> TRUE]

\* the inner loop of clusterSingletonsTogether without the domain boost
RECURSIVE BestClusterNoBoost(_, _, _, _)
BestClusterNoBoost(singleton, cl, n, best) ==
    IF n > Len(cl) THEN best
    ELSE LET score == cosineSimilarity(singleton.centroid, cl[n].centroid)
         IN BestClusterNoBoost(singleton, cl, n + 1,
                IF score > best.score THEN [cluster |-> n, score |-> score] ELSE best)

\* the inner loop of clusterSingletonsTogether from cluster n on; cluster = 0 is null
RECURSIVE BestClusterFrom(_, _, _, _)
BestClusterFrom(singleton, cl, n, best) ==
    IF n > Len(cl) THEN best
    ELSE LET sim == cosineSimilarity(singleton.centroid, cl[n].centroid)
             domainMatch == Includes(cl[n].domains, singleton.items[1].domain)
             score == sim + (IF domainMatch THEN DOMAIN_AFFINITY_BOOST ELSE 0)
         IN BestClusterFrom(singleton, cl, n + 1,
                IF score > best.score THEN [cluster |-> n, score |-> score] ELSE best)

\* SingletonStep with the else forgotten: a singleton that joined a cluster is
\* pushed as a cluster of its own as well
SingletonStepKeepsSingleton(cl, singleton) ==
    LET best == BestClusterFrom(singleton, cl, 1, [cluster |-> 0, score |-> 0 - One])
    IN IF best.score >= SINGLETON_CLUSTER_THRESHOLD /\ best.cluster # 0
       THEN Append([cl EXCEPT ![best.cluster] = absorbIntoCluster(singleton, cl[best.cluster])],
                   cloneCluster(singleton))
       ELSE Append(cl, cloneCluster(singleton))

\* SingletonStep with the threshold of HAC in place of SINGLETON_CLUSTER_THRESHOLD
SingletonStepContentThreshold(cl, singleton) ==
    LET best == BestClusterFrom(singleton, cl, 1, [cluster |-> 0, score |-> 0 - One])
    IN IF best.score >= CONTENT_SIMILARITY_THRESHOLD /\ best.cluster # 0
       THEN [cl EXCEPT ![best.cluster] = absorbIntoCluster(singleton, cl[best.cluster])]
       ELSE Append(cl, cloneCluster(singleton))

\* one iteration of the outer loop of clusterSingletonsTogether
SingletonStep(cl, singleton) ==
    LET best == BestClusterFrom(singleton, cl, 1, [cluster |-> 0, score |-> 0 - One])
    IN IF best.score >= SINGLETON_CLUSTER_THRESHOLD /\ best.cluster # 0
       THEN [cl EXCEPT ![best.cluster] = absorbIntoCluster(singleton, cl[best.cluster])]
       ELSE Append(cl, cloneCluster(singleton))

\* findClosestCluster(singleton, clusters) from cluster n on; cluster = 0 is null
RECURSIVE ClosestFrom(_, _, _, _)
ClosestFrom(singleton, cl, n, best) ==
    IF n > Len(cl) THEN best
    ELSE LET sim == cosineSimilarity(singleton.centroid, cl[n].centroid)
         IN ClosestFrom(singleton, cl, n + 1,
                IF sim > best.similarity THEN [cluster |-> n, similarity |-> sim]
                ELSE best)

\* findClosestCluster that stops at the first cluster
findClosestClusterFirst(singleton, cl) ==
    IF Len(cl) = 0 THEN [cluster |-> 0, similarity |-> 0 - One]
    ELSE [cluster |-> 1, similarity |-> cosineSimilarity(singleton.centroid, cl[1].centroid)]

findClosestCluster(singleton, cl) ==
    ClosestFrom(singleton, cl, 1, [cluster |-> 0, similarity |-> 0 - One])

\* Disposition with the catch-all forgotten
DispositionNoMisc(multi, finalOrph, capacity) ==
    IF Len(finalOrph) = 0 THEN multi ELSE multi \o finalOrph

\* Disposition that returns the true orphans before the multi-item clusters
DispositionOrphansFirst(multi, finalOrph, capacity) ==
    IF Len(finalOrph) = 0 THEN multi
    ELSE IF Len(multi) + Len(finalOrph) <= capacity THEN finalOrph \o multi
    ELSE IF Len(finalOrph) >= MIN_ORPHANS_FOR_MISC
         THEN Append(multi, createMiscCluster(finalOrph))
         ELSE finalOrph \o multi

\* Disposition without the test on MIN_ORPHANS_FOR_MISC
DispositionMiscAlways(multi, finalOrph, capacity) ==
    IF Len(finalOrph) = 0 THEN multi
    ELSE IF Len(multi) + Len(finalOrph) <= capacity THEN multi \o finalOrph
    ELSE Append(multi, createMiscCluster(finalOrph))

\* Disposition that asks for more than MIN_ORPHANS_FOR_MISC true orphans
DispositionAboveMin(multi, finalOrph, capacity) ==
    IF Len(finalOrph) = 0 THEN multi
    ELSE IF Len(multi) + Len(finalOrph) <= capacity THEN multi \o finalOrph
    ELSE IF Len(finalOrph) > MIN_ORPHANS_FOR_MISC
         THEN Append(multi, createMiscCluster(finalOrph))
         ELSE multi \o finalOrph

\* the disposition of the true orphans at the end of consolidateSingletons
Disposition(multi, finalOrph, capacity) ==
    IF Len(finalOrph) = 0 THEN multi
    ELSE IF Len(multi) + Len(finalOrph) <= capacity THEN multi \o finalOrph
    ELSE IF Len(finalOrph) >= MIN_ORPHANS_FOR_MISC
         THEN Append(multi, createMiscCluster(finalOrph))
         ELSE multi \o finalOrph

----------------------------------------------------------------------------
(* Cluster namer *)

stopWords ==
    {"the", "and", "is", "in", "at", "of", "for", "to", "with", "on", "a", "an",
     "http", "https", "com", "www", "video", "watch", "google", "youtube",
     "org", "en", "this", "that", "your", "you", "are", "was", "were", "been",
     "have", "has", "had", "will", "would", "could", "should", "may", "might",
     "new", "latest", "home", "page", "site", "web", "online", "free", "best"}

genericLabels == {"com", "org", "net", "io", "co", "www"}

colors == <<"blue", "green", "yellow", "red", "pink", "purple", "cyan", "orange", "grey">>

\* candidates.set(key, (candidates.get(key) || 0) + weight) on an insertion-ordered map
AddCandidate(cands, key, weight) ==
    IF \E n \in 1..Len(cands) : cands[n].key = key
    THEN [n \in 1..Len(cands) |->
            IF cands[n].key = key
            THEN [key |-> key, count |-> cands[n].count + weight]
            ELSE cands[n]]
    ELSE Append(cands, [key |-> key, count |-> weight])

\* parts.reduce((a, b) => a.length > b.length ? a : b, '')
RECURSIVE LongestPart(_, _)
LongestPart(parts, acc) ==
    IF parts = <<>> THEN acc
    ELSE LetConst(IF StrLen(acc) > StrLen(Head(parts)) THEN acc ELSE Head(parts),
                  LAMBDA longer : LongestPart(Tail(parts), longer))

\* the loop over cluster.domains
RECURSIVE DomainCandidates(_, _)
DomainCandidates(domains, cands) ==
    IF domains = <<>> THEN cands
    ELSE LET domain == Head(domains)
             parts == SelectSeq(domain, LAMBDA q : StrLen(q) > 2 /\ q \notin genericLabels)
             main == LongestPart(parts, "")
         IN LetConst(IF domain = <<"">> \/ main = "" THEN cands
                     ELSE AddCandidate(cands, <<main>>, 3),
                     LAMBDA next : DomainCandidates(Tail(domains), next))

RECURSIVE AddUnigrams(_, _)
AddUnigrams(words, cands) ==
    IF words = <<>> THEN cands
    ELSE LetConst(AddCandidate(cands, <<Head(words)>>, 1),
                  LAMBDA next : AddUnigrams(Tail(words), next))

RECURSIVE AddBigrams(_, _)
AddBigrams(words, cands) ==
    IF Len(words) < 2 THEN cands
    ELSE LetConst(AddCandidate(cands, <<words[1], words[2]>>, 2),
                  LAMBDA next : AddBigrams(Tail(words), next))

\* the loop over cluster.items
RECURSIVE TitleCandidates(_, _)
TitleCandidates(items, cands) ==
    IF items = <<>> THEN cands
    ELSE LET words == SelectSeq(Head(items).tab.title,
                                LAMBDA w : StrLen(w) > 2 /\ w \notin stopWords)
         IN LetConst(AddUnigrams(words, cands), LAMBDA unigrams :
            LetConst(AddBigrams(words, unigrams), LAMBDA next :
                TitleCandidates(Tail(items), next)))

\* [...].sort((a, b) => b[1] - a[1]): stable, by count, largest first
RECURSIVE SortByCount(_)
SortByCount(cands) ==
    IF cands = <<>> THEN <<>>
    ELSE LetConst(SortByCount(SubSeq(cands, 1, Len(cands) - 1)), LAMBDA rest :
            LET last == cands[Len(cands)]
                before == SelectSeq(rest, LAMBDA c : c.count >= last.count)
                after == SelectSeq(rest, LAMBDA c : c.count < last.count)
            IN before \o <<last>> \o after)

\* the re-scoring loop of generateClusterName from candidate n on
RECURSIVE BestNameFrom(_, _, _, _)
BestNameFrom(top, centroid, n, best) ==
    IF n > Len(top) THEN best
    ELSE LetConst(cosineSimilarity(getEmbedding(top[n]), centroid), LAMBDA score :
         LetConst(IF score > best.score THEN [name |-> top[n], score |-> score] ELSE best,
                  LAMBDA next : BestNameFrom(top, centroid, n + 1, next)))

\* generateClusterName(cluster): the words of the label and how they are cased
generateClusterName(cluster) ==
    LetConst(TitleCandidates(cluster.items, DomainCandidates(cluster.domains, <<>>)),
             LAMBDA candidates :
    LetConst(Slice(SortByCount(candidates), 6), LAMBDA sorted :
        LET topCandidates == [n \in 1..Len(sorted) |-> sorted[n].key]
        IN IF Len(candidates) = 0 THEN [words |-> <<"GROUP">>, format |-> "literal"]
           ELSE LetConst(BestNameFrom(topCandidates, cluster.centroid, 1,
                                      [name |-> topCandidates[1], score |-> 0 - One]),
                         LAMBDA best :
                    [words |-> best.name,
                     format |-> IF Len(best.name) > 1 THEN "TitleCase" ELSE "UPPERCASE"])))

\* SkipCluster with the skip forgotten
SkipNothing(cluster) == FALSE

\* does generateClusterMetadata skip this cluster?
SkipCluster(cluster) == Len(cluster.items) = 1

\* generateClusterMetadata(clusters) from cluster i on
RECURSIVE MetadataFrom(_, _)
MetadataFrom(cl, i) ==
    IF i > Len(cl) THEN <<>>
    ELSE IF SkipCluster(cl[i]) THEN MetadataFrom(cl, i + 1)
    ELSE <<[name |-> IF cl[i].isMisc THEN [words |-> <<"MISC">>, format |-> "literal"]
                     ELSE generateClusterName(cl[i]),
            color |-> colors[((i - 1) % Len(colors)) + 1],
            tabIds |-> [n \in 1..Len(cl[i].items) |-> cl[i].items[n].tab.id]]>>
         \o MetadataFrom(cl, i + 1)

\* a variant that pushes onto the results of the call before
generateClusterMetadataKeepsResults(cl) == result \o MetadataFrom(cl, 1)

generateClusterMetadata(cl) == MetadataFrom(cl, 1)

\* does generateClusterMetadata call getEmbedding?  It does for the candidates of
\* every cluster it names
EmbedsCandidates(cl) ==
    \E i \in 1..Len(cl) :
        /\ ~SkipCluster(cl[i])
        /\ ~cl[i].isMisc
        /\ Len(TitleCandidates(cl[i].items, DomainCandidates(cl[i].domains, <<>>))) > 0

----------------------------------------------------------------------------
(* Inputs: the tabs of the window *)

NoPage == [ok |-> FALSE, text |-> <<>>]

\* the pages a tab can show: its URL, its title, what the injected script returns
Catalogue ==
    << \* https://www.reactjs.org/docs/hooks-intro
       [url |-> [present |-> TRUE, valid |-> TRUE, scheme |-> "https",
                 hostname |-> <<"www", "reactjs", "org">>,
                 pathname |-> <<"", "docs", "hooks", "intro">>],
        title |-> <<"react", "hooks">>, page |-> NoPage],
       \* https://cooking.example.com/recipe/ab/docs
       [url |-> [present |-> TRUE, valid |-> TRUE, scheme |-> "https",
                 hostname |-> <<"cooking", "example", "com">>,
                 pathname |-> <<"", "recipe", "ab", "docs">>],
        title |-> <<"baking", "bread">>,
        page |-> [ok |-> TRUE, text |-> <<"baking", "bread", "recipe">>]],
       \* a URL that new URL() rejects
       [url |-> [present |-> TRUE, valid |-> FALSE, scheme |-> "",
                 hostname |-> <<"">>, pathname |-> <<"">>],
        title |-> <<"lorem">>, page |-> NoPage],
       \* https://blog.example.com/docs_docs
       [url |-> [present |-> TRUE, valid |-> TRUE, scheme |-> "https",
                 hostname |-> <<"blog", "example", "com">>,
                 pathname |-> <<"", "docs", "docs">>],
        title |-> <<"kitchen", "tips">>, page |-> NoPage],
       \* chrome://extensions/
       [url |-> [present |-> TRUE, valid |-> TRUE, scheme |-> "chrome",
                 hostname |-> <<"extensions">>, pathname |-> <<"", "">>],
        title |-> <<"extensions">>,
        page |-> [ok |-> TRUE, text |-> <<"react", "hooks">>]],
       \* https://news.io/
       [url |-> [present |-> TRUE, valid |-> TRUE, scheme |-> "https",
                 hostname |-> <<"news", "io">>, pathname |-> <<"", "">>],
        title |-> <<"news">>, page |-> NoPage] >>

\* the pages taken in every order
CorePages == 1..4

\* chrome.tabs.query: the tab at position i showing page p; tab ids are unique
Tab(i, p) == [id |-> 100 + i, url |-> p.url, title |-> p.title, page |-> p.page]

TabList(choice) == [i \in 1..Len(choice) |-> Tab(i, Catalogue[choice[i]])]

\* every list of n core pages
AllOrders(n) == [1..n -> CorePages]

\* every list of n pages in catalogue order, from page lo on
RECURSIVE InOrder(_, _)
InOrder(n, lo) ==
    IF n = 0 THEN {<<>>}
    ELSE UNION {{<<p>> \o rest : rest \in InOrder(n - 1, p)} : p \in lo..Len(Catalogue)}

Choices ==
    UNION {AllOrders(n) : n \in 0..MaxTabs} \cup UNION {InOrder(n, 1) : n \in 0..MaxSortedTabs}

\* window widths: capacity 2, capacity limited by the tab count only
Widths == {260, 1920}

----------------------------------------------------------------------------
(* clusterTabs, step by step *)

NoProbe == <<>>

\* TooFewTabs with the floor one lower: tabs.length < 2
TooFewTabsBelowTwo(ts) == Len(ts) < 2

\* tabs.length <= 2
TooFewTabs(ts) == Len(ts) <= 2

\* a new ClusteringEngine, before any run
Fresh ==
    /\ steps = {}
    /\ extractor = "null"
    /\ enrichedTabs = <<>>
    /\ tabVectors = <<>>
    /\ similarityMatrix = <<>>
    /\ groupCapacity = 0
    /\ clusters = <<>>
    /\ singletons = <<>>
    /\ multiClusters = <<>>
    /\ singletonGroups = <<>>
    /\ orphans = <<>>
    /\ finalOrphans = <<>>
    /\ k = 0
    /\ result = <<>>

\* no embedding call fails, and clusterTabs is called directly
Unmanaged ==
    /\ fault = "none"
    /\ isGrouping = FALSE
    /\ runs = <<>>
    /\ requests = <<>>
    /\ groupOf = <<>>
    /\ ungroups = <<>>

Init ==
    /\ tabs \in {TabList(c) : c \in Choices}
    /\ screenWidth \in Widths
    /\ pc = "idle"
    /\ probe = NoProbe
    /\ probeOut = NoProbe
    /\ Fresh
    /\ Unmanaged

\* clusterTabs up to the first pipeline step: init() and the short-input return
ClusterTabs ==
    /\ pc = "idle"
    /\ extractor' = "loaded"
    /\ steps' = {"init"}
    /\ IF TooFewTabs(tabs)
       THEN /\ result' = <<>>
            /\ pc' = "done"
       ELSE /\ pc' = "extract"
            /\ UNCHANGED result
    /\ UNCHANGED <<tabs, screenWidth, enrichedTabs, tabVectors, similarityMatrix,
                   groupCapacity, clusters, singletons, multiClusters, singletonGroups,
                   orphans, finalOrphans, k, probe, probeOut, fault, mgrVars>>

\* Step 1: extractAndEnrichTabs
Extract ==
    /\ pc = "extract"
    /\ enrichedTabs' = extractAndEnrichTabs(tabs)
    /\ steps' = steps \cup {"extract"}
    /\ pc' = "embed"
    /\ UNCHANGED <<tabs, screenWidth, extractor, tabVectors, similarityMatrix,
                   groupCapacity, clusters, singletons, multiClusters, singletonGroups,
                   orphans, finalOrphans, k, result, probe, probeOut, fault, mgrVars>>

\* Step 2: generateEmbeddings
Embed ==
    /\ pc = "embed"
    /\ steps' = steps \cup {"embed"}
    /\ IF fault = "item"
       THEN /\ pc' = "failed"
            /\ UNCHANGED tabVectors
       ELSE /\ tabVectors' = generateEmbeddings(enrichedTabs)
            /\ pc' = "matrix"
    /\ UNCHANGED <<tabs, screenWidth, extractor, enrichedTabs, similarityMatrix,
                   groupCapacity, clusters, singletons, multiClusters, singletonGroups,
                   orphans, finalOrphans, k, result, probe, probeOut, fault, mgrVars>>

\* Step 3 and the start of step 4: buildSimilarityMatrix, calculateGroupCapacity and
\* the initial clusters of agglomerativeClustering
BuildMatrix ==
    /\ pc = "matrix"
    /\ similarityMatrix' = buildSimilarityMatrix(tabVectors)
    /\ groupCapacity' = calculateGroupCapacity(screenWidth, Len(tabs))
    /\ clusters' = [idx \in 1..Len(tabVectors) |-> SingletonCluster(tabVectors[idx], idx)]
    /\ steps' = steps \cup {"matrix", "cluster"}
    /\ pc' = "hac"
    /\ UNCHANGED <<tabs, screenWidth, extractor, enrichedTabs, tabVectors, singletons,
                   multiClusters, singletonGroups, orphans, finalOrphans, k, result,
                   probe, probeOut, fault, mgrVars>>

\* one test of the while loop of agglomerativeClustering, and its body
HacStep ==
    /\ pc = "hac"
    /\ IF Len(clusters) > groupCapacity
       THEN \E best \in {findBestMerge(clusters, similarityMatrix)},
               adaptiveThreshold \in {computeAdaptiveThreshold(Len(tabVectors), groupCapacity)} :
               IF AvgBelow(best.similarity, adaptiveThreshold)
               THEN /\ pc' = "consolidate"
                    /\ UNCHANGED clusters
               ELSE /\ clusters' = Append(RemovePair(clusters, best.i, best.j),
                                          mergeClusters(clusters[best.i], clusters[best.j]))
                    /\ pc' = "hac"
       ELSE /\ pc' = "consolidate"
            /\ UNCHANGED clusters
    /\ UNCHANGED <<tabs, screenWidth, steps, extractor, enrichedTabs, tabVectors,
                   similarityMatrix, groupCapacity, singletons, multiClusters,
                   singletonGroups, orphans, finalOrphans, k, result, probe, probeOut, fault, mgrVars>>

\* Step 5, consolidateSingletons up to the loop of Pass 1
ConsolidateStart ==
    /\ pc = "consolidate"
    /\ steps' = steps \cup {"consolidate"}
    /\ singletons' = SelectSeq(clusters, LAMBDA c : Len(c.items) = 1)
    /\ multiClusters' = SelectSeq(clusters, LAMBDA c : Len(c.items) > 1)
    /\ IF Len(singletons') = 0
       THEN /\ pc' = "metadata"
            /\ UNCHANGED <<singletonGroups, k>>
       ELSE IF Len(singletons') <= 1
            THEN /\ singletonGroups' = singletons'
                 /\ pc' = "pass1end"
                 /\ UNCHANGED k
            ELSE /\ singletonGroups' = <<>>
                 /\ k' = 1
                 /\ pc' = "pass1"
    /\ UNCHANGED <<tabs, screenWidth, extractor, enrichedTabs, tabVectors,
                   similarityMatrix, groupCapacity, clusters, orphans, finalOrphans,
                   result, probe, probeOut, fault, mgrVars>>

\* Pass 1: one singleton of clusterSingletonsTogether
Pass1Step ==
    /\ pc = "pass1"
    /\ singletonGroups' = SingletonStep(singletonGroups, singletons[k])
    /\ k' = k + 1
    /\ pc' = IF k = Len(singletons) THEN "pass1end" ELSE "pass1"
    /\ UNCHANGED <<tabs, screenWidth, steps, extractor, enrichedTabs, tabVectors,
                   similarityMatrix, groupCapacity, clusters, singletons, multiClusters,
                   orphans, finalOrphans, result, probe, probeOut, fault, mgrVars>>

\* Pass 1: the new multi-item clusters join multiClusters, the rest are orphans
Pass1End ==
    /\ pc = "pass1end"
    /\ multiClusters' = multiClusters \o SelectSeq(singletonGroups, LAMBDA c : Len(c.items) > 1)
    /\ orphans' = SelectSeq(singletonGroups, LAMBDA c : Len(c.items) = 1)
    /\ finalOrphans' = <<>>
    /\ k' = 1
    /\ pc' = IF Len(orphans') = 0 THEN "pass3" ELSE "pass2"
    /\ UNCHANGED <<tabs, screenWidth, steps, extractor, enrichedTabs, tabVectors,
                   similarityMatrix, groupCapacity, clusters, singletons,
                   singletonGroups, result, probe, probeOut, fault, mgrVars>>

\* Pass 2: one orphan
Pass2Step ==
    /\ pc = "pass2"
    /\ LET orphan == orphans[k]
           closest == findClosestCluster(orphan, multiClusters)
       IN IF closest.similarity >= SINGLETON_ABSORPTION_THRESHOLD /\ closest.cluster # 0
          THEN /\ multiClusters' = [multiClusters EXCEPT ![closest.cluster] =
                                       absorbIntoCluster(orphan, multiClusters[closest.cluster])]
               /\ UNCHANGED finalOrphans
          ELSE /\ finalOrphans' = Append(finalOrphans, orphan)
               /\ UNCHANGED multiClusters
    /\ k' = k + 1
    /\ pc' = IF k = Len(orphans) THEN "pass3" ELSE "pass2"
    /\ UNCHANGED <<tabs, screenWidth, steps, extractor, enrichedTabs, tabVectors,
                   similarityMatrix, groupCapacity, clusters, singletons,
                   singletonGroups, orphans, result, probe, probeOut, fault, mgrVars>>

\* Pass 3: what consolidateSingletons returns
Pass3 ==
    /\ pc = "pass3"
    /\ clusters' = Disposition(multiClusters, finalOrphans, groupCapacity)
    /\ pc' = "metadata"
    /\ UNCHANGED <<tabs, screenWidth, steps, extractor, enrichedTabs, tabVectors,
                   similarityMatrix, groupCapacity, singletons, multiClusters,
                   singletonGroups, orphans, finalOrphans, k, result, probe, probeOut, fault, mgrVars>>

\* Step 6: generateClusterMetadata, and the return of clusterTabs
Metadata ==
    /\ pc = "metadata"
    /\ steps' = steps \cup {"name"}
    /\ IF fault = "name" /\ EmbedsCandidates(clusters)
       THEN /\ pc' = "failed"
            /\ UNCHANGED result
       ELSE /\ result' = generateClusterMetadata(clusters)
            /\ pc' = "done"
    /\ UNCHANGED <<tabs, screenWidth, extractor, enrichedTabs, tabVectors,
                   similarityMatrix, groupCapacity, clusters, singletons, multiClusters,
                   singletonGroups, orphans, finalOrphans, k, probe, probeOut, fault, mgrVars>>

Next ==
    \/ ClusterTabs
    \/ Extract
    \/ Embed
    \/ BuildMatrix
    \/ HacStep
    \/ ConsolidateStart
    \/ Pass1Step
    \/ Pass1End
    \/ Pass2Step
    \/ Pass3
    \/ Metadata

Spec == Init /\ [][Next]_vars

\* the run with its while loop executing: an iteration that can run does run
SpecHac == Spec /\ WF_vars(HacStep)

----------------------------------------------------------------------------
(* Scenario B: ten tabs with nothing in common *)

\* longest window, in groups of PIXELS_PER_GROUP pixels
MaxSlots == 11

\* window widths around every multiple of PIXELS_PER_GROUP
ProbeWidths == {PIXELS_PER_GROUP * q + r : q \in (0 - 1)..MaxSlots, r \in {0, 65, 129}}

\* https://<topic>.com/<topic>, titled <topic>
TopicTab(i) ==
    Tab(i, [url |-> [present |-> TRUE, valid |-> TRUE, scheme |-> "https",
                     hostname |-> <<Topics[i], "com">>, pathname |-> <<"", Topics[i]>>],
            title |-> <<Topics[i]>>, page |-> NoPage])

InitB ==
    /\ tabs = [i \in 1..Len(Topics) |-> TopicTab(i)]
    /\ screenWidth \in ProbeWidths
    /\ pc = "idle"
    /\ probe = NoProbe
    /\ probeOut = NoProbe
    /\ Fresh
    /\ Unmanaged

SpecB == InitB /\ [][Next]_vars

----------------------------------------------------------------------------
(* Scenario C: four tabs on one subject, on four sites *)

\* https://<word>.com/, titled <word>
KinPage(w) ==
    [url |-> [present |-> TRUE, valid |-> TRUE, scheme |-> "https",
              hostname |-> <<w, "com">>, pathname |-> <<"", "">>],
     title |-> <<w>>, page |-> NoPage]

\* four of the five texts, in every order
KinOrders ==
    {o \in [1..4 -> 1..Len(Kin)] : \A m, n \in 1..4 : m # n => o[m] # o[n]}

\* the four tabs alone, or with one tab on another subject before or after them
KinWindows ==
    LET four(o) == [i \in 1..4 |-> KinPage(Kin[o[i]])]
        other == TopicTab(10)
        number(ps) == [i \in 1..Len(ps) |-> Tab(i, ps[i])]
    IN {number(four(o)) : o \in KinOrders}
       \cup {number(<<other>> \o four(o)) : o \in KinOrders}
       \cup {number(Append(four(o), other)) : o \in KinOrders}

InitC ==
    /\ tabs \in KinWindows
    /\ screenWidth \in Widths
    /\ pc = "idle"
    /\ probe = NoProbe
    /\ probeOut = NoProbe
    /\ Fresh
    /\ Unmanaged

SpecC == InitC /\ [][Next]_vars

----------------------------------------------------------------------------
(* Pass 1: five tabs that HAC leaves single, two of them on one site *)

\* https://<site>.com/, titled <word>; papa and quebec are on the site papa
PalPage(w) ==
    [url |-> [present |-> TRUE, valid |-> TRUE, scheme |-> "https",
              hostname |-> <<IF w = "quebec" THEN "papa" ELSE w, "com">>,
              pathname |-> <<"", "">>],
     title |-> <<w>>, page |-> NoPage]

\* the five tabs in every order
PalWindows ==
    {[i \in 1..Len(Pals) |-> Tab(i, PalPage(Pals[o[i]]))] :
        o \in {f \in [1..Len(Pals) -> 1..Len(Pals)] :
                  \A m, n \in 1..Len(Pals) : m # n => f[m] # f[n]}}

InitP ==
    /\ tabs \in PalWindows
    /\ screenWidth \in Widths
    /\ pc = "idle"
    /\ probe = NoProbe
    /\ probeOut = NoProbe
    /\ Fresh
    /\ Unmanaged

SpecP == InitP /\ [][Next]_vars

----------------------------------------------------------------------------
(* The five tabs again, two of them with a URL that does not parse *)

\* papa and quebec have a URL new URL() rejects; sierra is on docs.romeo.com,
\* romeo on romeo.com, tango on tango.com
NoDomainPage(w) ==
    IF w \in {"papa", "quebec"}
    THEN [url |-> [present |-> TRUE, valid |-> FALSE, scheme |-> "",
                   hostname |-> <<"">>, pathname |-> <<"">>],
          title |-> <<w>>, page |-> NoPage]
    ELSE [url |-> [present |-> TRUE, valid |-> TRUE, scheme |-> "https",
                   hostname |-> IF w = "sierra" THEN <<"docs", "romeo", "com">>
                                ELSE <<w, "com">>,
                   pathname |-> <<"", "">>],
          title |-> <<w>>, page |-> NoPage]

\* the five tabs in every order
NoDomainWindows ==
    {[i \in 1..Len(Pals) |-> Tab(i, NoDomainPage(Pals[o[i]]))] :
        o \in {f \in [1..Len(Pals) -> 1..Len(Pals)] :
                  \A m, n \in 1..Len(Pals) : m # n => f[m] # f[n]}}

InitD ==
    /\ tabs \in NoDomainWindows
    /\ screenWidth \in Widths
    /\ pc = "idle"
    /\ probe = NoProbe
    /\ probeOut = NoProbe
    /\ Fresh
    /\ Unmanaged

SpecD == InitD /\ [][Next]_vars

----------------------------------------------------------------------------
(* computePairwiseSimilarity applied to two tabs, both ways round *)

\* longest pathname, in pieces
MaxPathLen == 3

ProbePaths == UNION {[1..n -> {"docs", "api"}] : n \in 0..MaxPathLen}

ProbeHosts == {<<"www", "reactjs", "org">>, <<"docs", "reactjs", "org">>, <<"news", "io">>}

ProbeTitles == {<<"react", "hooks">>, <<"hooks">>}

ProbePages ==
    {[url |-> [present |-> TRUE, valid |-> TRUE, scheme |-> "https",
               hostname |-> h, pathname |-> <<"">> \o path],
      title |-> t, page |-> NoPage] : h \in ProbeHosts, path \in ProbePaths, t \in ProbeTitles}
    \cup
    {[url |-> [present |-> TRUE, valid |-> FALSE, scheme |-> "",
               hostname |-> <<"">>, pathname |-> <<"">>],
      title |-> t, page |-> NoPage] : t \in ProbeTitles}

InitSim ==
    /\ probe \in {<<Tab(1, p1), Tab(2, p2)>> : p1 \in ProbePages, p2 \in ProbePages}
    /\ probeOut = NoProbe
    /\ pc = "probe"
    /\ tabs = <<>>
    /\ screenWidth = 0
    /\ Fresh
    /\ Unmanaged

\* featurize and embed the two tabs, then score them as (a, b) and as (b, a)
ProbeSimilarity ==
    /\ pc = "probe"
    /\ LET tv == generateEmbeddings(extractAndEnrichTabs(probe))
       IN probeOut' = [items |-> tv,
                       ab |-> computePairwiseSimilarity(tv[1], tv[2]),
                       ba |-> computePairwiseSimilarity(tv[2], tv[1])]
    /\ pc' = "probed"
    /\ UNCHANGED <<tabs, screenWidth, steps, extractor, enrichedTabs, tabVectors,
                   similarityMatrix, groupCapacity, clusters, singletons, multiClusters,
                   singletonGroups, orphans, finalOrphans, k, result, probe, fault, mgrVars>>

NextSim == ProbeSimilarity

SpecSim == InitSim /\ [][NextSim]_vars

----------------------------------------------------------------------------
(* calculateGroupCapacity applied to two widths and one tab count *)

\* longest tab list whose capacity is computed
MaxProbeTabs == 24

InitCap ==
    /\ probe \in {[w1 |-> w1, w2 |-> w2, tabCount |-> n] :
                     w1 \in ProbeWidths, w2 \in ProbeWidths, n \in 0..MaxProbeTabs}
    /\ probeOut = NoProbe
    /\ pc = "probe"
    /\ tabs = <<>>
    /\ screenWidth = 0
    /\ Fresh
    /\ Unmanaged

ProbeCapacity ==
    /\ pc = "probe"
    /\ probeOut' = [c1 |-> calculateGroupCapacity(probe.w1, probe.tabCount),
                    c2 |-> calculateGroupCapacity(probe.w2, probe.tabCount)]
    /\ pc' = "probed"
    /\ UNCHANGED <<tabs, screenWidth, steps, extractor, enrichedTabs, tabVectors,
                   similarityMatrix, groupCapacity, clusters, singletons, multiClusters,
                   singletonGroups, orphans, finalOrphans, k, result, probe, fault, mgrVars>>

NextCap == ProbeCapacity

SpecCap == InitCap /\ [][NextCap]_vars

----------------------------------------------------------------------------
(* computeAdaptiveThreshold applied to two tab counts, the second not the smaller *)

\* largest tab count whose threshold is computed
MaxThresholdTabs == 30

InitThr ==
    /\ probe \in {[tabCount |-> n, more |-> m, targetGroups |-> g] :
                     n \in 0..MaxThresholdTabs, m \in 0..MaxThresholdTabs,
                     g \in {MIN_GROUPS, MAX_GROUPS}}
    /\ probe.tabCount <= probe.more
    /\ probeOut = NoProbe
    /\ pc = "probe"
    /\ tabs = <<>>
    /\ screenWidth = 0
    /\ Fresh
    /\ Unmanaged

ProbeThreshold ==
    /\ pc = "probe"
    /\ probeOut' = [t1 |-> computeAdaptiveThreshold(probe.tabCount, probe.targetGroups),
                    t2 |-> computeAdaptiveThreshold(probe.more, probe.targetGroups)]
    /\ pc' = "probed"
    /\ UNCHANGED <<tabs, screenWidth, steps, extractor, enrichedTabs, tabVectors,
                   similarityMatrix, groupCapacity, clusters, singletons, multiClusters,
                   singletonGroups, orphans, finalOrphans, k, result, probe, fault, mgrVars>>

NextThr == ProbeThreshold

SpecThr == InitThr /\ [][NextThr]_vars

----------------------------------------------------------------------------
(* parseUrl and the featurizer applied to a string that is no URL and to a URL *)

\* longest pathname of a probed URL, in pieces between '/', '-' and '_'
MaxUrlPieces == 7

\* strings new URL() rejects: no string at all, the empty string, 'news.io/docs'
BadUrls ==
    {[present |-> FALSE, valid |-> FALSE, scheme |-> "", hostname |-> <<"">>,
      pathname |-> <<"">>],
     [present |-> TRUE, valid |-> FALSE, scheme |-> "", hostname |-> <<"">>,
      pathname |-> <<"">>],
     [present |-> TRUE, valid |-> FALSE, scheme |-> "", hostname |-> <<"news", "io">>,
      pathname |-> <<"", "docs">>]}

UrlPieces == {"ab", "api", "docs"}

\* URLs new URL() accepts; the pathname starts with '/'
GoodUrls ==
    {[present |-> TRUE, valid |-> TRUE, scheme |-> "https", hostname |-> h,
      pathname |-> <<"">> \o path] :
        h \in {<<"www", "reactjs", "org">>, <<"localhost">>},
        path \in UNION {[1..n -> UrlPieces] : n \in 0..MaxUrlPieces}}

InitUrl ==
    /\ probe \in {[bad |-> b, good |-> g] : b \in BadUrls, g \in GoodUrls}
    /\ probeOut = NoProbe
    /\ pc = "probe"
    /\ tabs = <<>>
    /\ screenWidth = 0
    /\ Fresh
    /\ Unmanaged

\* parseUrl on both strings, and extractAndEnrichTabs on a window of two tabs
\* showing them
ProbeUrl ==
    /\ pc = "probe"
    /\ LET page(u) == [url |-> u, title |-> <<"react", "hooks">>, page |-> NoPage]
       IN probeOut' = [bad |-> parseUrl(probe.bad),
                       good |-> parseUrl(probe.good),
                       enriched |-> extractAndEnrichTabs(
                                       <<Tab(1, page(probe.bad)), Tab(2, page(probe.good))>>)]
    /\ pc' = "probed"
    /\ UNCHANGED <<tabs, screenWidth, steps, extractor, enrichedTabs, tabVectors,
                   similarityMatrix, groupCapacity, clusters, singletons, multiClusters,
                   singletonGroups, orphans, finalOrphans, k, result, probe, fault, mgrVars>>

NextUrl == ProbeUrl

SpecUrl == InitUrl /\ [][NextUrl]_vars

----------------------------------------------------------------------------
(* The callers: background.js, TabManager (tabManager.js) and offscreen.js *)

\* GROUP_NOW messages the popup sends
MaxMessages == 3

\* what chrome.tabs.query can answer at the time of a run
MgrWindows == {TabList(<<2, 4, 2, 1>>), TabList(<<2, 2, 3, 4, 5>>)}

\* what chrome.windows.getCurrent() can answer as width; 0 for no width
MgrWidths == {0, 260}

\* the embedding call that fails: none, one of generateEmbeddings, one of
\* generateClusterName
Faults == {"none", "item", "name"}

TabIds == UNION {{w[i].id : i \in 1..Len(w)} : w \in MgrWindows}

\* chrome.tabGroups.TAB_GROUP_ID_NONE
NoGroup == <<>>

NoResponse == [kind |-> "none", groups |-> <<>>]

\* getScreenWidth: window.width || 1920
getScreenWidth(width) == IF width = 0 THEN 1920 ELSE width

\* handleClustering whose catch answers with an empty group list
ReplyGroupsAnyway(outcome, groups) ==
    [kind |-> "groups", groups |-> IF outcome = "done" THEN groups ELSE <<>>]

\* handleClustering: sendResponse({ groups }) or sendResponse({ error })
Reply(outcome, groups) ==
    IF outcome = "done" THEN [kind |-> "groups", groups |-> groups]
    ELSE [kind |-> "error", groups |-> <<>>]

\* regroupTabs without its guard
AlreadyGroupingIgnored(flag) == FALSE

\* regroupTabs: if (this.isGrouping) return
AlreadyGrouping(flag) == flag

\* a listener that tells the popup when the run was dropped
GroupNowAnswerBusy(dropped) == IF dropped THEN "busy" ELSE "ok"

\* the listener of background.js on GROUP_NOW: sendResponse({ status: 'ok' }), after
\* regroupTabs() has returned its promise, whether the call was dropped or not
GroupNowAnswer(dropped) == "ok"

\* a call of regroupTabs that has set isGrouping
NewRun ==
    [pc |-> "offscreen", skipped |-> FALSE, tabs |-> <<>>, screenWidth |-> 0,
     before |-> <<>>, after |-> <<>>, response |-> NoResponse, sent |-> FALSE,
     failed |-> FALSE, applied |-> FALSE, threw |-> FALSE, answer |-> "none"]

\* applyGroups: the loop over groups, from group n on, in run r
RECURSIVE GroupFrom(_, _, _, _)
GroupFrom(groups, n, g, r) ==
    IF n > Len(groups) THEN g
    ELSE LET groupDef == groups[n]
             ids == {groupDef.tabIds[i] : i \in 1..Len(groupDef.tabIds)}
             skip == \/ Len(groupDef.tabIds) = 0
                     \/ Len(groupDef.tabIds) = 1 /\ groupDef.name.words # <<"MISC">>
         IN GroupFrom(groups, n + 1,
                IF skip THEN g
                ELSE [id \in DOMAIN g |->
                        IF id \in ids
                        THEN [id |-> <<r, n>>, title |-> groupDef.name,
                              color |-> groupDef.color]
                        ELSE g[id]],
                r)

\* the working set of one call of clusterTabs, before its first step
NewCall ==
    /\ steps' = {}
    /\ enrichedTabs' = <<>>
    /\ tabVectors' = <<>>
    /\ similarityMatrix' = <<>>
    /\ groupCapacity' = 0
    /\ clusters' = <<>>
    /\ singletons' = <<>>
    /\ multiClusters' = <<>>
    /\ singletonGroups' = <<>>
    /\ orphans' = <<>>
    /\ finalOrphans' = <<>>
    /\ k' = 0

InitMgr ==
    /\ tabs = <<>>
    /\ screenWidth = 0
    /\ pc = "off"
    /\ probe = NoProbe
    /\ probeOut = NoProbe
    /\ Fresh
    /\ fault = "none"
    /\ isGrouping = FALSE
    /\ runs = <<>>
    /\ requests = <<>>
    /\ groupOf = [id \in TabIds |-> NoGroup]
    /\ ungroups = <<>>

\* the listener of background.js on GROUP_NOW, and regroupTabs up to its first await
GroupNow ==
    /\ Len(runs) < MaxMessages
    /\ IF AlreadyGrouping(isGrouping)
       THEN /\ runs' = Append(runs, [NewRun EXCEPT !.pc = "returned", !.skipped = TRUE,
                                                  !.answer = GroupNowAnswer(TRUE)])
            /\ UNCHANGED isGrouping
       ELSE /\ runs' = Append(runs, [NewRun EXCEPT !.answer = GroupNowAnswer(FALSE)])
            /\ isGrouping' = TRUE
    /\ UNCHANGED <<tabs, screenWidth, pc, steps, extractor, enrichedTabs, tabVectors,
                   similarityMatrix, groupCapacity, clusters, singletons, multiClusters,
                   singletonGroups, orphans, finalOrphans, k, result, probe, probeOut,
                   fault, requests, groupOf, ungroups>>

\* regroupTabs: createOffscreenDocument, tabs.query, getScreenWidth, sendMessage
SendClusterTabs(r) ==
    /\ runs[r].pc = "offscreen"
    /\ \E w \in MgrWindows, width \in MgrWidths :
          /\ runs' = [runs EXCEPT ![r] = [@ EXCEPT !.pc = "wait", !.tabs = w,
                                             !.screenWidth = getScreenWidth(width),
                                             !.before = groupOf, !.sent = TRUE]]
          /\ requests' = Append(requests, [run |-> r, tabs |-> w,
                                           screenWidth |-> getScreenWidth(width)])
    /\ UNCHANGED <<tabs, screenWidth, pc, steps, extractor, enrichedTabs, tabVectors,
                   similarityMatrix, groupCapacity, clusters, singletons, multiClusters,
                   singletonGroups, orphans, finalOrphans, k, result, probe, probeOut,
                   fault, isGrouping, groupOf, ungroups>>

\* regroupTabs with the catch block but without the finally block
ContextErrorNoFinally(r) ==
    /\ runs[r].pc = "offscreen"
    /\ runs' = [runs EXCEPT ![r] = [@ EXCEPT !.pc = "returned", !.threw = TRUE,
                                             !.after = groupOf]]
    /\ UNCHANGED <<tabs, screenWidth, pc, steps, extractor, enrichedTabs, tabVectors,
                   similarityMatrix, groupCapacity, clusters, singletons, multiClusters,
                   singletonGroups, orphans, finalOrphans, k, result, probe, probeOut,
                   fault, isGrouping, requests, groupOf, ungroups>>

\* regroupTabs: createOffscreenDocument, tabs.query or sendMessage rejects; the
\* catch block logs the error and the finally block runs
ContextError(r) ==
    /\ runs[r].pc = "offscreen"
    /\ runs' = [runs EXCEPT ![r] = [@ EXCEPT !.pc = "returned", !.threw = TRUE,
                                             !.after = groupOf]]
    /\ isGrouping' = FALSE
    /\ UNCHANGED <<tabs, screenWidth, pc, steps, extractor, enrichedTabs, tabVectors,
                   similarityMatrix, groupCapacity, clusters, singletons, multiClusters,
                   singletonGroups, orphans, finalOrphans, k, result, probe, probeOut,
                   fault, requests, groupOf, ungroups>>

\* the listener of offscreen.js on CLUSTER_TABS: handleClustering calls clusterTabs.
\* The working set is that of one call: a second message waits for the first to be
\* answered.
HandleClustering ==
    /\ pc = "off"
    /\ requests # <<>>
    /\ tabs' = Head(requests).tabs
    /\ screenWidth' = getScreenWidth(Head(requests).screenWidth)
    /\ fault' \in Faults
    /\ pc' = "idle"
    /\ NewCall
    /\ UNCHANGED <<extractor, result, probe, probeOut, mgrVars>>

\* handleClustering: clusterTabs has returned or thrown, sendResponse
SendResponse ==
    /\ pc \in {"done", "failed"}
    /\ requests # <<>>
    /\ LET r == Head(requests).run
       IN runs' = [runs EXCEPT ![r] = [@ EXCEPT !.pc = "resume",
                                          !.response = Reply(pc, result),
                                          !.failed = (pc = "failed")]]
    /\ requests' = Tail(requests)
    /\ pc' = "off"
    /\ UNCHANGED <<tabs, screenWidth, steps, extractor, enrichedTabs, tabVectors,
                   similarityMatrix, groupCapacity, clusters, singletons, multiClusters,
                   singletonGroups, orphans, finalOrphans, k, result, probe, probeOut,
                   fault, isGrouping, groupOf, ungroups>>

\* regroupTabs after the answer: applyGroups is called, or the error is logged and
\* the finally block runs
Resume(r) ==
    /\ runs[r].pc = "resume"
    /\ IF runs[r].response.kind = "groups"
       THEN /\ runs' = [runs EXCEPT ![r] = [@ EXCEPT !.pc = "apply", !.applied = TRUE]]
            /\ UNCHANGED isGrouping
       ELSE /\ runs' = [runs EXCEPT ![r] = [@ EXCEPT !.pc = "returned", !.after = groupOf]]
            /\ isGrouping' = FALSE
    /\ UNCHANGED <<tabs, screenWidth, pc, steps, extractor, enrichedTabs, tabVectors,
                   similarityMatrix, groupCapacity, clusters, singletons, multiClusters,
                   singletonGroups, orphans, finalOrphans, k, result, probe, probeOut,
                   fault, requests, groupOf, ungroups>>

\* applyGroups: the tabs that were in a group when queried are ungrouped
ApplyUngroup(r) ==
    /\ runs[r].pc = "apply"
    /\ LET allTabs == {runs[r].tabs[i].id : i \in 1..Len(runs[r].tabs)}
       IN groupOf' = [id \in DOMAIN groupOf |->
                        IF id \in allTabs /\ runs[r].before[id] # NoGroup
                        THEN NoGroup ELSE groupOf[id]]
    /\ runs' = [runs EXCEPT ![r].pc = "group"]
    /\ UNCHANGED <<tabs, screenWidth, pc, steps, extractor, enrichedTabs, tabVectors,
                   similarityMatrix, groupCapacity, clusters, singletons, multiClusters,
                   singletonGroups, orphans, finalOrphans, k, result, probe, probeOut,
                   fault, isGrouping, requests, ungroups>>

\* applyGroups: the new groups are made; then the finally block of regroupTabs
ApplyGroup(r) ==
    /\ runs[r].pc = "group"
    /\ groupOf' = GroupFrom(runs[r].response.groups, 1, groupOf, r)
    /\ runs' = [runs EXCEPT ![r] = [@ EXCEPT !.pc = "returned", !.after = groupOf']]
    /\ isGrouping' = FALSE
    /\ UNCHANGED <<tabs, screenWidth, pc, steps, extractor, enrichedTabs, tabVectors,
                   similarityMatrix, groupCapacity, clusters, singletons, multiClusters,
                   singletonGroups, orphans, finalOrphans, k, result, probe, probeOut,
                   fault, requests, ungroups>>

NextMgr ==
    \/ GroupNow
    \/ \E r \in 1..Len(runs) : SendClusterTabs(r)
    \/ \E r \in 1..Len(runs) : ContextError(r)
    \/ HandleClustering
    \/ ClusterTabs
    \/ Extract
    \/ Embed
    \/ BuildMatrix
    \/ HacStep
    \/ ConsolidateStart
    \/ Pass1Step
    \/ Pass1End
    \/ Pass2Step
    \/ Pass3
    \/ Metadata
    \/ SendResponse
    \/ \E r \in 1..Len(runs) : Resume(r)
    \/ \E r \in 1..Len(runs) : ApplyUngroup(r)
    \/ \E r \in 1..Len(runs) : ApplyGroup(r)

SpecMgr == InitMgr /\ [][NextMgr]_vars

\* every step but the arrival of a message: an awaited call settles
Settle ==
    \/ \E r \in 1..Len(runs) : SendClusterTabs(r)
    \/ \E r \in 1..Len(runs) : ContextError(r)
    \/ HandleClustering
    \/ ClusterTabs
    \/ Extract
    \/ Embed
    \/ BuildMatrix
    \/ HacStep
    \/ ConsolidateStart
    \/ Pass1Step
    \/ Pass1End
    \/ Pass2Step
    \/ Pass3
    \/ Metadata
    \/ SendResponse
    \/ \E r \in 1..Len(runs) : Resume(r)
    \/ \E r \in 1..Len(runs) : ApplyUngroup(r)
    \/ \E r \in 1..Len(runs) : ApplyGroup(r)

\* the callers when every awaited call settles
SpecMgrLive == SpecMgr /\ WF_vars(Settle)

----------------------------------------------------------------------------
(* The callers with the UNGROUP_ALL message *)

\* UNGROUP_ALL messages the popup sends
MaxUngroups == 1

\* the listener of background.js on UNGROUP_ALL: chrome.tabs.query is called
UngroupAllReceived ==
    /\ Len(ungroups) < MaxUngroups
    /\ ungroups' = Append(ungroups, [pc |-> "query", tabs |-> <<>>,
                                     runsBefore |-> Len(runs)])
    /\ UNCHANGED <<tabs, screenWidth, pc, steps, extractor, enrichedTabs, tabVectors,
                   similarityMatrix, groupCapacity, clusters, singletons, multiClusters,
                   singletonGroups, orphans, finalOrphans, k, result, probe, probeOut,
                   fault, isGrouping, runs, requests, groupOf>>

\* the callback of chrome.tabs.query: ungroupAll(tabs) up to its await, sendResponse
UngroupAllQueried(u) ==
    /\ ungroups[u].pc = "query"
    /\ ungroups' = [ungroups EXCEPT ![u] = [@ EXCEPT !.pc = "ungroup", !.tabs = groupOf]]
    /\ UNCHANGED <<tabs, screenWidth, pc, steps, extractor, enrichedTabs, tabVectors,
                   similarityMatrix, groupCapacity, clusters, singletons, multiClusters,
                   singletonGroups, orphans, finalOrphans, k, result, probe, probeOut,
                   fault, isGrouping, runs, requests, groupOf>>

\* ungroupAll: chrome.tabs.ungroup on the tabs that were in a group when queried
UngroupAllDone(u) ==
    /\ ungroups[u].pc = "ungroup"
    /\ groupOf' = [id \in DOMAIN groupOf |->
                      IF ungroups[u].tabs[id] # NoGroup THEN NoGroup ELSE groupOf[id]]
    /\ ungroups' = [ungroups EXCEPT ![u].pc = "done"]
    /\ UNCHANGED <<tabs, screenWidth, pc, steps, extractor, enrichedTabs, tabVectors,
                   similarityMatrix, groupCapacity, clusters, singletons, multiClusters,
                   singletonGroups, orphans, finalOrphans, k, result, probe, probeOut,
                   fault, isGrouping, runs, requests>>

NextBg ==
    \/ NextMgr
    \/ UngroupAllReceived
    \/ \E u \in 1..Len(ungroups) : UngroupAllQueried(u)
    \/ \E u \in 1..Len(ungroups) : UngroupAllDone(u)

SpecBg == InitMgr /\ [][NextBg]_vars

----------------------------------------------------------------------------
(* Properties *)

NoRepeats(seq) == \A i, j \in 1..Len(seq) : i # j => seq[i] # seq[j]

OutputTabIds == Flatten([i \in 1..Len(result) |-> result[i].tabIds])

\* C1: when clusterTabs has returned, no tab id appears in the tabIds of two
\* output clusters, and none appears twice in the tabIds of one.
C1_TabIdsDisjoint == pc = "done" => NoRepeats(OutputTabIds)

C1_Witness == pc = "done" /\ Len(tabs) >= 3 /\ Len(result) >= 2 /\ Len(OutputTabIds) >= 5

C3_Symmetric == pc = "probed" => probeOut.ab = probeOut.ba

Consolidated == pc \in {"metadata", "done"} /\ "consolidate" \in steps

\* C4 as claimed: with at least MIN_ORPHANS_FOR_MISC true orphans after Pass 2, the
\* cluster list that comes out is no longer than the capacity.
C4_CapacityWithEnoughOrphans ==
    (Consolidated /\ Len(finalOrphans) >= MIN_ORPHANS_FOR_MISC)
        => Len(clusters) <= groupCapacity /\ Len(result) <= groupCapacity

\* C4 as amended: with at least MIN_ORPHANS_FOR_MISC true orphans and fewer
\* multi-item clusters than the capacity after Pass 2, the cluster list that comes
\* out is no longer than the capacity; so the capacity is exceeded only with fewer
\* true orphans than MIN_ORPHANS_FOR_MISC or with as many multi-item clusters as the
\* capacity or more.
C4_CapacityWhenRoomForCatchAll ==
    (Consolidated /\ Len(finalOrphans) >= MIN_ORPHANS_FOR_MISC
                  /\ Len(multiClusters) < groupCapacity)
        => Len(clusters) <= groupCapacity /\ Len(result) <= groupCapacity

C4_Witness ==
    /\ pc = "done"
    /\ Len(finalOrphans) >= MIN_ORPHANS_FOR_MISC
    /\ Len(multiClusters) >= 1
    /\ Len(multiClusters) < groupCapacity
    /\ clusters[Len(clusters)].isMisc

\* the position in tabs of the tab with this id
PositionOf(id) == CHOOSE i \in 1..Len(tabs) : tabs[i].id = id

\* every pairwise score is below every configured threshold
AllDissimilar ==
    \A i, j \in 1..Len(tabVectors) :
        i # j => similarityMatrix[i][j] < SINGLETON_ABSORPTION_THRESHOLD

\* C5 as claimed: for ten mutually dissimilar tabs no output group holds two tabs
\* whose pairwise score is below every threshold.
C5_NoForcedGroup ==
    pc = "done" =>
        \A g \in 1..Len(result) : \A a, b \in 1..Len(result[g].tabIds) :
            a < b => similarityMatrix[PositionOf(result[g].tabIds[a])]
                                     [PositionOf(result[g].tabIds[b])]
                        >= SINGLETON_ABSORPTION_THRESHOLD

\* C5 as amended: for ten mutually dissimilar tabs, agglomerative clustering, Pass 1
\* and Pass 2 merge nothing, and clusterTabs returns exactly one group, the
\* catch-all named MISC, holding all ten tabs in input order.
C5_OnlyTheCatchAll ==
    /\ pc \in {"hac", "consolidate", "pass1", "pass1end", "pass2", "pass3"}
          => /\ \A i \in 1..Len(clusters) : Len(clusters[i].items) = 1
             /\ \A i \in 1..Len(singletonGroups) : Len(singletonGroups[i].items) = 1
             /\ multiClusters = <<>>
    /\ pc = "done"
          => /\ Len(result) = 1
             /\ result[1].name = [words |-> <<"MISC">>, format |-> "literal"]
             /\ result[1].tabIds = [i \in 1..Len(tabs) |-> tabs[i].id]

C5_Witness ==
    /\ pc = "done"
    /\ Len(tabs) = 10
    /\ AllDissimilar
    /\ NoRepeats([i \in 1..Len(tabVectors) |-> tabVectors[i].domain])
    /\ Len(result) = 1
    /\ Len(finalOrphans) = 10

\* the embeddings of the members of a cluster, looked up by index
MemberEmbeddings(c) == [n \in 1..Len(c.indices) |-> tabVectors[c.indices[n]].embedding]

ClusterLists == <<clusters, singletons, multiClusters, singletonGroups, orphans, finalOrphans>>

\* C6: in every state, every cluster of every list carries the centroid that
\* computeCentroid gives for the embeddings of exactly its current members.
C6_CentroidInvariant ==
    \A l \in 1..Len(ClusterLists) : \A i \in 1..Len(ClusterLists[l]) :
        LET c == ClusterLists[l][i]
        IN /\ c.embeddings = MemberEmbeddings(c)
           /\ c.centroid = computeCentroid(MemberEmbeddings(c))

C6_Witness ==
    /\ pc = "metadata"
    /\ Len(singletons) < Len(tabs)
    /\ Len(orphans) > Len(finalOrphans)
    /\ \E i \in 1..Len(clusters) : clusters[i].isMisc

ClusterPairs == {p \in (1..Len(clusters)) \X (1..Len(clusters)) : p[1] < p[2]}

Linkage(p) == AvgSim(clusters[p[1]], clusters[p[2]], similarityMatrix)

AdaptiveThreshold == computeAdaptiveThreshold(Len(tabVectors), groupCapacity)

\* the step replaced the clusters of pair p by their union, put last
JoinedLast(p) ==
    /\ Len(clusters') = Len(clusters) - 1
    /\ clusters'[Len(clusters')].indices = clusters[p[1]].indices \o clusters[p[2]].indices
    /\ \A m \in 1..Len(clusters) : m \notin {p[1], p[2]} => Includes(clusters', clusters[m])

\* C7: every step of agglomerativeClustering that changes the clusters joins a pair
\* of maximal average linkage whose linkage is at least the adaptive threshold; a
\* step taken when every linkage is below the threshold ends the loop and changes
\* nothing, whatever the cluster count.
C7_NoForcedMerge ==
    [][pc = "hac" =>
        /\ clusters' # clusters =>
              \E p \in ClusterPairs :
                  /\ \A q \in ClusterPairs : ~AvgGreater(Linkage(q), Linkage(p))
                  /\ ~AvgBelow(Linkage(p), AdaptiveThreshold)
                  /\ JoinedLast(p)
        /\ (\A p \in ClusterPairs : AvgBelow(Linkage(p), AdaptiveThreshold))
              => clusters' = clusters /\ pc' = "consolidate"]_vars

C7_Witness ==
    /\ pc = "consolidate"
    /\ Len(clusters) < Len(tabs)
    /\ Len(clusters) > groupCapacity

\* C8: every entry clusterTabs returns has at least two tabIds.
C8_NoSingleItemOutput == pc = "done" => \A i \in 1..Len(result) : Len(result[i].tabIds) >= 2

C8_Witness ==
    /\ pc = "done"
    /\ Len(result) >= 1
    /\ \E i \in 1..Len(clusters) : Len(clusters[i].items) = 1

\* C9 as claimed: for 3 tabs or more the capacity is at most half the tab count.
C9_AtMostHalf ==
    (pc = "probed" /\ probe.tabCount >= 3) => 2 * probeOut.c1 <= probe.tabCount

\* C9 as amended: for 3 tabs or more the capacity is at most half the tab count
\* rounded up, ceil(tabCount / 2).
C9_AtMostHalfRoundedUp ==
    (pc = "probed" /\ probe.tabCount >= 3) => 2 * probeOut.c1 <= probe.tabCount + 1

C9_Witness ==
    pc = "probed" /\ probe.tabCount >= 3 /\ 2 * probeOut.c1 = probe.tabCount + 1

\* C10: for a fixed tab count the capacity does not decrease when the width grows,
\* and it always lies between MIN_GROUPS and MAX_GROUPS.
C10_MonotoneAndBounded ==
    pc = "probed" =>
        /\ probe.w1 <= probe.w2 => probeOut.c1 <= probeOut.c2
        /\ MIN_GROUPS <= probeOut.c1 /\ probeOut.c1 <= MAX_GROUPS

C10_Witness ==
    pc = "probed" /\ probe.w1 < probe.w2 /\ probeOut.c1 < probeOut.c2
        /\ probeOut.c2 = MAX_GROUPS

\* C11: a run in which an embedding call failed is answered by the offscreen handler
\* with an error and no groups, regroupTabs never calls applyGroups for it, and the
\* tab groups of the browser are the same when it returns as when it queried the tabs.
C11_FailedRunAppliesNothing ==
    \A r \in 1..Len(runs) :
        runs[r].failed =>
            /\ runs[r].response = [kind |-> "error", groups |-> <<>>]
            /\ ~runs[r].applied
            /\ runs[r].pc \in {"resume", "returned"}
            /\ runs[r].pc = "resume" => groupOf = runs[r].before
            /\ runs[r].pc = "returned" => runs[r].after = runs[r].before

C11_Witness ==
    /\ pc = "off"
    /\ fault = "name"
    /\ Len(runs) >= 2
    /\ runs[Len(runs)].failed
    /\ runs[Len(runs)].pc = "returned"
    /\ \E id \in DOMAIN groupOf : groupOf[id] # NoGroup
    /\ \E r \in 1..Len(runs) : runs[r].failed /\ runs[r].tabs # runs[Len(runs)].tabs

InProgress(r) == runs[r].pc \in {"offscreen", "wait", "resume", "apply", "group"}

\* C12: at most one regroupTabs run is in progress and at most one CLUSTER_TABS
\* request is outstanding; a GROUP_NOW that found isGrouping set has returned at
\* once, has sent no request and has applied no groups.
C12_RunsSerialized ==
    /\ Cardinality({r \in 1..Len(runs) : InProgress(r)}) <= 1
    /\ Len(requests) <= 1
    /\ isGrouping = (\E r \in 1..Len(runs) : InProgress(r))
    /\ \A r \in 1..Len(runs) :
          runs[r].skipped =>
              /\ runs[r].pc = "returned"
              /\ ~runs[r].sent
              /\ ~runs[r].applied
              /\ \A n \in 1..Len(requests) : requests[n].run # r

C12_Witness ==
    /\ Len(runs) = 3
    /\ ~runs[1].skipped /\ runs[1].pc = "group"
    /\ runs[2].skipped
    /\ runs[3].skipped
    /\ Len(requests) = 0

\* the cluster list the run is working on at its current position
CurrentClusters ==
    CASE pc \in {"hac", "consolidate", "metadata", "done"} -> clusters
      [] pc \in {"pass1", "pass1end"} -> multiClusters \o singletonGroups
      [] pc \in {"pass2", "pass3"} -> multiClusters
      [] OTHER -> <<>>

\* items i and j (positions in the tab list) are members of one cluster
Together(i, j) ==
    \E n \in 1..Len(CurrentClusters) :
        /\ Includes(CurrentClusters[n].indices, i)
        /\ Includes(CurrentClusters[n].indices, j)

\* the tabs of items i and j are in one group of the returned list
TogetherInResult(i, j) ==
    \E n \in 1..Len(result) :
        /\ Includes(result[n].tabIds, tabs[i].id)
        /\ Includes(result[n].tabIds, tabs[j].id)

\* C13: two items that are members of the same cluster before a step of the run are
\* members of the same cluster after it, through HAC, Pass 1, Pass 2 and the
\* catch-all step, and are in the same group of the returned list.
C13_NeverSplit ==
    [][\A i, j \in 1..Len(tabs) :
          (i < j /\ Together(i, j)) =>
              /\ Together(i, j)'
              /\ pc' = "done" => TogetherInResult(i, j)']_vars

C13_Witness ==
    /\ pc = "done"
    /\ \E n \in 1..Len(clusters) : ~clusters[n].isMisc /\ Len(clusters[n].indices) >= 3
    /\ Len(orphans) > Len(finalOrphans)
    /\ Len(singletonGroups) < Len(singletons)

Ascending(seq) == \A m, n \in 1..Len(seq) : m < n => seq[m] < seq[n]

\* C14: in every state every cluster's member index list is in ascending original
\* input order, and so is the tabIds list of every group of the returned list.
C14_MembersAscending ==
    /\ \A l \in 1..Len(ClusterLists) : \A i \in 1..Len(ClusterLists[l]) :
          Ascending(ClusterLists[l][i].indices)
    /\ pc = "done" =>
          \A n \in 1..Len(result) :
              Ascending([m \in 1..Len(result[n].tabIds) |-> PositionOf(result[n].tabIds[m])])

ScenarioA(R) ==
    /\ Len(tabVectors) = 5
    /\ Cardinality(R) = 3
    /\ \A i, j \in R :
          i # j => /\ tabVectors[i].baseDomain = tabVectors[j].baseDomain
                   /\ similarityMatrix[i][j] >= AdaptiveThreshold
    /\ \A u \in (1..5) \ R :
          /\ \A v \in (1..5) \ {u} :
                /\ tabVectors[u].domain # tabVectors[v].domain
                /\ tabVectors[u].baseDomain # tabVectors[v].baseDomain
                /\ similarityMatrix[u][v] < SINGLETON_ABSORPTION_THRESHOLD
          /\ \A order \in [1..3 -> R] :
                (\A m, n \in 1..3 : m # n => order[m] # order[n]) =>
                    cosineSimilarity(tabVectors[u].embedding,
                        computeCentroid([n \in 1..3 |-> tabVectors[order[n]].embedding]))
                    < SINGLETON_ABSORPTION_THRESHOLD

\* C16: for five items of which three are related and two are unrelated as in
\* scenario A, clusterTabs returns exactly one group; it holds the three related
\* tabs, and the two unrelated tabs are in no group.
C16_ScenarioA ==
    pc = "done" =>
        \A R \in SUBSET (1..Len(tabVectors)) :
            ScenarioA(R) =>
                /\ Len(result) = 1
                /\ {result[1].tabIds[n] : n \in 1..Len(result[1].tabIds)}
                      = {tabs[i].id : i \in R}
                /\ Len(result[1].tabIds) = 3

C16_Witness ==
    /\ pc = "done"
    /\ groupCapacity = 2
    /\ \E R \in SUBSET (1..Len(tabVectors)) :
          /\ ScenarioA(R)
          /\ \E i, j \in R : tabVectors[i].embedding # tabVectors[j].embedding

\* the singletons at the positions K are the four of scenario C: no two share a
\* domain and every two have a cosine similarity of at least
\* SINGLETON_CLUSTER_THRESHOLD; a singleton outside K is orthogonal to each of them
ScenarioC(K) ==
    /\ Cardinality(K) = 4
    /\ \A m \in K : \A n \in K :
          m # n => /\ singletons[m].items[1].domain # singletons[n].items[1].domain
                   /\ cosineSimilarity(singletons[m].centroid, singletons[n].centroid)
                         >= SINGLETON_CLUSTER_THRESHOLD
    /\ \A m \in K : \A n \in (1..Len(singletons)) \ K :
          cosineSimilarity(singletons[m].centroid, singletons[n].centroid) = 0

\* C17: when four singletons as in scenario C enter Pass 1 (any other singleton
\* being unrelated to them), Pass 1 ends with one cluster holding exactly those
\* four, whatever the order in which they are processed.
C17_ScenarioC ==
    \A K \in SUBSET (1..Len(singletons)) :
        (pc = "pass1end" /\ ScenarioC(K)) =>
            \E g \in 1..Len(singletonGroups) :
                /\ Len(singletonGroups[g].indices) = 4
                /\ {singletonGroups[g].indices[n] : n \in 1..4}
                      = {singletons[m].indices[1] : m \in K}

C17_Witness ==
    /\ pc = "pass1end"
    /\ ScenarioC(1..4)
    /\ Len(singletons) = 4
    /\ singletons[1].items[1].tab.title = <<"november">>
    /\ singletons[4].items[1].tab.title = <<"kilo">>

\* the run r was answered with groups
Answered(r) == runs[r].response.kind = "groups"

RECURSIVE IsSubsequence(_, _)
IsSubsequence(a, b) ==
    IF a = <<>> THEN TRUE
    ELSE IF b = <<>> THEN FALSE
    ELSE IF Head(a) = Head(b) THEN IsSubsequence(Tail(a), Tail(b))
    ELSE IsSubsequence(a, Tail(b))

\* at most 5 tokens, each longer than 2 characters, in the order of the pathname
PathTokensBounded(parsed, url) ==
    /\ Len(parsed.pathTokens) <= 5
    /\ \A n \in 1..Len(parsed.pathTokens) : StrLen(parsed.pathTokens[n]) > 2
    /\ IsSubsequence(parsed.pathTokens, url.pathname)

\* C19: for a string that is no URL parseUrl returns domain '', baseDomain '' and
\* no path tokens, and the featurizer keeps the tab as an item with these values;
\* for any URL string pathTokens has at most 5 tokens, each longer than 2
\* characters, in path order.
C19_ParseUrlFailsClosed ==
    pc = "probed" =>
        /\ probeOut.bad = [domain |-> <<"">>, baseDomain |-> <<"">>, pathTokens |-> <<>>]
        /\ Len(probeOut.enriched) = 2
        /\ probeOut.enriched[1].tab.url = probe.bad
        /\ probeOut.enriched[1].domain = <<"">>
        /\ probeOut.enriched[1].baseDomain = <<"">>
        /\ probeOut.enriched[1].pathTokens = <<>>
        /\ PathTokensBounded(probeOut.bad, probe.bad)
        /\ PathTokensBounded(probeOut.good, probe.good)
        /\ probeOut.enriched[2].pathTokens = probeOut.good.pathTokens

C19_Witness ==
    /\ pc = "probed"
    /\ probe.bad.present
    /\ probe.bad.pathname = <<"", "docs">>
    /\ probe.good.pathname = <<"", "docs", "ab", "api", "api", "docs", "docs", "api">>
    /\ probeOut.good.pathTokens = <<"docs", "api", "api", "docs", "docs">>
    /\ probeOut.enriched[1].domain = <<"">>

\* the stages of a run that come after buildSimilarityMatrix
AfterMatrix == pc \in {"hac", "consolidate", "pass1", "pass1end", "pass2", "pass3",
                       "metadata", "done"}

\* C20: the similarity matrix is symmetric (matrix[i][j] = matrix[j][i] for all i, j)
\* and, once built, no later stage of the run changes any entry of it.
C20_SymmetricAndFrozen ==
    /\ [](\A i, j \in 1..Len(similarityMatrix) :
             similarityMatrix[i][j] = similarityMatrix[j][i])
    /\ [][AfterMatrix => similarityMatrix' = similarityMatrix]_vars

C20_Witness ==
    /\ pc = "done"
    /\ Len(similarityMatrix) = Len(tabs)
    /\ Len(result) >= 1
    /\ Len(singletonGroups) >= 1
    /\ \E i, j \in 1..Len(tabVectors) :
          /\ i < j
          /\ computePairwiseSimilarity(tabVectors[i], tabVectors[j])
                # computePairwiseSimilarity(tabVectors[j], tabVectors[i])
          /\ similarityMatrix[j][i] = computePairwiseSimilarity(tabVectors[i], tabVectors[j])
\* the set of the elements of a sequence
Range(seq) == {seq[n] : n \in 1..Len(seq)}

\* the three conditions of the catch-all, on what Pass 2 left
CatchAllDue ==
    /\ Len(finalOrphans) > 0
    /\ Len(multiClusters) + Len(finalOrphans) > groupCapacity
    /\ Len(finalOrphans) >= MIN_ORPHANS_FOR_MISC

\* C21: consolidateSingletons returns a catch-all cluster if and only if true
\* orphans exist, multi-item clusters plus true orphans exceed the capacity and the
\* true orphans are at least MIN_ORPHANS_FOR_MISC; the catch-all is then the only
\* cluster flagged isMisc, is last, and holds exactly the true orphans; otherwise
\* no cluster is flagged and each true orphan is returned as a one-item cluster.
C21_CatchAllDisposition ==
    Consolidated =>
        LET flagged == {i \in 1..Len(clusters) : clusters[i].isMisc}
        IN /\ (flagged # {}) <=> CatchAllDue
           /\ CatchAllDue =>
                 /\ flagged = {Len(clusters)}
                 /\ Len(clusters) = Len(multiClusters) + 1
                 /\ Len(clusters[Len(clusters)].indices) = Len(finalOrphans)
                 /\ Range(clusters[Len(clusters)].indices)
                       = UNION {Range(finalOrphans[n].indices) : n \in 1..Len(finalOrphans)}
           /\ ~CatchAllDue =>
                 \A n \in 1..Len(finalOrphans) :
                     /\ Len(finalOrphans[n].indices) = 1
                     /\ Cardinality({i \in 1..Len(clusters) :
                                        clusters[i].indices = finalOrphans[n].indices}) = 1

C21_Witness ==
    /\ pc = "done"
    /\ CatchAllDue
    /\ Len(finalOrphans) = MIN_ORPHANS_FOR_MISC
    /\ Len(multiClusters) = groupCapacity
    /\ clusters[Len(clusters)].isMisc
    /\ Len(clusters[Len(clusters)].indices) = MIN_ORPHANS_FOR_MISC

\* the raw cosine similarity of the orphan Pass 2 is at with the current centroid of
\* the n-th multi-item cluster
OrphanSim(n) == cosineSimilarity(orphans[k].centroid, multiClusters[n].centroid)

\* the step absorbed the orphan into the n-th multi-item cluster
AbsorbedInto(n) ==
    /\ Len(multiClusters') = Len(multiClusters)
    /\ multiClusters'[n].indices = multiClusters[n].indices \o orphans[k].indices
    /\ multiClusters'[n].items = multiClusters[n].items \o orphans[k].items
    /\ \A m \in 1..Len(multiClusters) : m # n => multiClusters'[m] = multiClusters[m]
    /\ finalOrphans' = finalOrphans

\* C22: a step of Pass 2 absorbs the orphan into a multi-item cluster whose current
\* centroid has the highest raw cosine similarity to it, and only if that similarity
\* is at least SINGLETON_ABSORPTION_THRESHOLD; otherwise (also when there is no
\* multi-item cluster) the orphan becomes a true orphan and no cluster changes.  The
\* clusters Pass 2 absorbs into all have two items or more, and the orphans are
\* taken in order.
C22_Pass2Absorption ==
    [][pc = "pass2" =>
        /\ \A n \in 1..Len(multiClusters) : Len(multiClusters[n].items) >= 2
        /\ orphans' = orphans
        /\ k' = k + 1
        /\ IF \E n \in 1..Len(multiClusters) : OrphanSim(n) >= SINGLETON_ABSORPTION_THRESHOLD
           THEN \E n \in 1..Len(multiClusters) :
                   /\ \A m \in 1..Len(multiClusters) : OrphanSim(m) <= OrphanSim(n)
                   /\ AbsorbedInto(n)
           ELSE /\ finalOrphans' = Append(finalOrphans, orphans[k])
                /\ multiClusters' = multiClusters]_vars

C22_Witness ==
    /\ pc = "pass3"
    /\ Len(orphans) >= 2
    /\ Len(finalOrphans) >= 1
    /\ Len(finalOrphans) < Len(orphans)
    /\ Len(multiClusters) >= 2

\* the pairs of clusters whose average linkage is the maximum
BestPairs == {p \in ClusterPairs : \A q \in ClusterPairs : ~AvgGreater(Linkage(q), Linkage(p))}

\* p comes before q in the scan of findBestMerge, or is q
ScannedFirst(p, q) == p[1] < q[1] \/ (p[1] = q[1] /\ p[2] <= q[2])

\* C23: when several pairs of clusters share the maximum average linkage,
\* findBestMerge returns the first of them in (i, j) scan order, with i < j, and that
\* is the pair a merging step joins.
C23_FirstBestPairWins ==
    [][(pc = "hac" /\ Len(clusters) >= 2) =>
        LET best == findBestMerge(clusters, similarityMatrix)
        IN /\ best.i < best.j
           /\ <<best.i, best.j>> \in BestPairs
           /\ \A q \in BestPairs : ScannedFirst(<<best.i, best.j>>, q)
           /\ clusters' # clusters => JoinedLast(<<best.i, best.j>>)]_vars

C23_Witness ==
    /\ pc = "hac"
    /\ Len(clusters) < Len(tabs)
    /\ Len(clusters) > groupCapacity
    /\ Cardinality(BestPairs) >= 2
    /\ \E p \in BestPairs : p[1] # 1
    /\ ~AvgBelow(findBestMerge(clusters, similarityMatrix).similarity, AdaptiveThreshold)

\* agglomerativeClustering has returned and consolidateSingletons has not started
HacReturned == pc = "consolidate"

\* C24: when agglomerativeClustering returns, the cluster count is at most
\* targetGroups or every pair of the remaining clusters has an average linkage below
\* the adaptive threshold; and with at least targetGroups items the count is never
\* below targetGroups, during the loop or at its end.
C24_HacTerminalCondition ==
    /\ HacReturned =>
          \/ Len(clusters) <= groupCapacity
          \/ \A p \in ClusterPairs :
                Linkage(p).total < AdaptiveThreshold * Linkage(p).count
    /\ (pc \in {"hac", "consolidate"} /\ Len(tabVectors) >= groupCapacity) =>
          Len(clusters) >= groupCapacity

C24_Witness ==
    /\ HacReturned
    /\ Len(tabVectors) >= 5
    /\ Len(clusters) > groupCapacity
    /\ Len(clusters) < Len(tabVectors)
    /\ groupCapacity >= 3

\* the score of the singleton Pass 1 is at against the n-th cluster formed so far
Pass1Score(n) ==
    cosineSimilarity(singletons[k].centroid, singletonGroups[n].centroid)
    + (IF singletons[k].items[1].domain \in Range(singletonGroups[n].domains)
       THEN DOMAIN_AFFINITY_BOOST ELSE 0)

\* the step put the singleton into the n-th cluster formed so far
JoinedGroup(n) ==
    /\ Len(singletonGroups') = Len(singletonGroups)
    /\ singletonGroups'[n].indices = singletonGroups[n].indices \o singletons[k].indices
    /\ singletonGroups'[n].items = singletonGroups[n].items \o singletons[k].items
    /\ \A m \in 1..Len(singletonGroups) : m # n => singletonGroups'[m] = singletonGroups[m]

\* the step made a new one-item cluster of the singleton, last in the list
StartedGroup ==
    /\ Len(singletonGroups') = Len(singletonGroups) + 1
    /\ SubSeq(singletonGroups', 1, Len(singletonGroups)) = singletonGroups
    /\ singletonGroups'[Len(singletonGroups')].indices = singletons[k].indices
    /\ singletonGroups'[Len(singletonGroups')].items = singletons[k].items

\* C25: Pass 1 takes the singletons in the order of the HAC output; a step puts the
\* singleton into the cluster formed so far with the highest score (centroid cosine,
\* plus DOMAIN_AFFINITY_BOOST when the cluster's domains contain the singleton's
\* domain) if that score is at least SINGLETON_CLUSTER_THRESHOLD, the earliest-formed
\* cluster winning on equal scores, and otherwise starts a new one-item cluster.
C25_Pass1Greedy ==
    [][pc = "pass1" =>
        /\ singletons = SelectSeq(clusters, LAMBDA c : Len(c.items) = 1)
        /\ singletons' = singletons
        /\ k' = k + 1
        /\ LET groups == 1..Len(singletonGroups)
               top == {n \in groups : \A m \in groups : Pass1Score(m) <= Pass1Score(n)}
           IN IF \E n \in groups : Pass1Score(n) >= SINGLETON_CLUSTER_THRESHOLD
              THEN \E n \in top : (\A m \in top : n <= m) /\ JoinedGroup(n)
              ELSE StartedGroup]_vars

C25_Witness ==
    /\ pc = "pass1end"
    /\ Len(singletons) = 5
    /\ singletons[1].items[1].tab.title = <<"romeo">>
    /\ singletons[2].items[1].tab.title = <<"sierra">>
    /\ singletons[3].items[1].tab.title = <<"tango">>
    /\ singletons[4].items[1].tab.title = <<"papa">>
    /\ singletons[5].items[1].tab.title = <<"quebec">>
    /\ Len(singletonGroups) = 3
    /\ singletonGroups[1].indices = <<1, 3>>
    /\ singletonGroups[2].indices = <<2>>
    /\ singletonGroups[3].indices = <<4, 5>>

\* the member indices of a cluster list, cluster after cluster
AllIndices(cl) == Flatten([i \in 1..Len(cl) |-> cl[i].indices])

\* every item index is a member of exactly one cluster of the list, once
Partitions(cl) ==
    /\ Len(AllIndices(cl)) = Len(tabVectors)
    /\ Range(AllIndices(cl)) = 1..Len(tabVectors)
    /\ \A i \in 1..Len(cl) : \A n \in 1..Len(cl[i].indices) :
          cl[i].items[n] = tabVectors[cl[i].indices[n]]

\* C26: for three items or more, the cluster list agglomerativeClustering returns
\* and the cluster list consolidateSingletons returns each partition the item
\* indices: every index is a member of exactly one cluster, once.
C26_Partition ==
    /\ HacReturned => Partitions(clusters)
    /\ Consolidated => Partitions(clusters)

C26_Witness ==
    /\ pc = "metadata"
    /\ "consolidate" \in steps
    /\ clusters[Len(clusters)].isMisc
    /\ Len(orphans) > Len(finalOrphans)
    /\ \E i \in 1..Len(clusters) : Len(clusters[i].indices) >= 3 /\ ~clusters[i].isMisc

\* C27: every regroupTabs call that sets isGrouping sets it back to false in the
\* end, whether the groups are applied, the offscreen handler answers with an error
\* or an awaited call throws: isGrouping never stays set for ever.
C27_GuardReleased == isGrouping ~> ~isGrouping

C27_Witness ==
    /\ ~isGrouping
    /\ Len(runs) = 3
    /\ \A r \in 1..3 : runs[r].pc = "returned" /\ ~runs[r].skipped
    /\ \E r \in 1..3 : runs[r].applied
    /\ \E r \in 1..3 : runs[r].failed
    /\ \E r \in 1..3 : runs[r].threw

\* the handlers of UNGROUP_ALL have finished, no GROUP_NOW came after the last
\* UNGROUP_ALL, and every regroupTabs run has returned
AllQuietAfterUngroup ==
    /\ Len(ungroups) >= 1
    /\ \A u \in 1..Len(ungroups) : ungroups[u].pc = "done"
    /\ Len(runs) = ungroups[Len(ungroups)].runsBefore
    /\ \A r \in 1..Len(runs) : runs[r].pc = "returned"
    /\ requests = <<>>

\* C28: if UNGROUP_ALL is handled and no GROUP_NOW is received after it, then once
\* all handlers have finished no tab is in a group.
C28_UngroupAllWins ==
    AllQuietAfterUngroup => \A id \in DOMAIN groupOf : groupOf[id] = NoGroup

\* C29: every GROUP_NOW message is answered with status 'ok' in the step that
\* receives it, while the run it started (or, for a dropped call, the run that holds
\* the guard) is still in progress; the answer is 'ok'
\* for a run that applies groups, for a call dropped by the isGrouping guard and for
\* a run that fails later.
C29_GroupNowAnsweredOk ==
    /\ [](\A r \in 1..Len(runs) : runs[r].answer = "ok")
    /\ [][Len(runs') > Len(runs) =>
            /\ Len(runs') = Len(runs) + 1
            /\ runs'[Len(runs')].answer = "ok"
            /\ isGrouping'
            /\ IF runs'[Len(runs')].skipped
               THEN \E q \in 1..Len(runs) : runs[q].pc # "returned"
               ELSE /\ runs'[Len(runs')].pc = "offscreen"
                    /\ ~runs'[Len(runs')].applied]_vars

C29_Witness ==
    /\ Len(runs) = 3
    /\ \A r \in 1..3 : runs[r].pc = "returned" /\ runs[r].answer = "ok"
    /\ \E r \in 1..3 : runs[r].applied
    /\ \E r \in 1..3 : runs[r].skipped
    /\ \E r \in 1..3 : runs[r].failed


\* C30: agglomerativeClustering terminates.  Every iteration of its loop either
\* leaves the loop with the clusters as they are or makes the cluster count exactly
\* one smaller; findBestMerge is called only with more clusters than the capacity,
\* which is at least 2 and at most the number of items, so the merges are at most
\* n - targetGroups; and the loop is always left.
C30_HacTerminates ==
    /\ [](pc = "hac" =>
            /\ groupCapacity >= 2
            /\ groupCapacity <= Len(tabVectors)
            /\ Len(clusters) >= groupCapacity
            /\ Len(tabVectors) - Len(clusters) <= Len(tabVectors) - groupCapacity)
    /\ [][pc = "hac" =>
            \/ pc' = "consolidate" /\ clusters' = clusters
            \/ /\ pc' = "hac"
               /\ Len(clusters) > groupCapacity
               /\ Len(clusters) >= 2
               /\ Len(clusters') = Len(clusters) - 1]_vars
    /\ (pc = "hac" ~> pc = "consolidate")

C30_Witness ==
    /\ pc = "consolidate"
    /\ Len(clusters) = groupCapacity
    /\ Len(tabVectors) - Len(clusters) >= 2

\* 0.85 x base
ThresholdFloor == (CONTENT_SIMILARITY_THRESHOLD * 85) \div 100

\* C31: the adaptive threshold is base * max(0.85, 1 - (itemCount - 10) * 0.01); it
\* is non-increasing in the item count, never below 0.85 x base, and equal to
\* 0.85 x base for every item count of 25 or more (and for no smaller one).
C31_ThresholdRelaxesToFloor ==
    pc = "probed" =>
        /\ probeOut.t1 * 100 =
               CONTENT_SIMILARITY_THRESHOLD * Max(85, 100 - (probe.tabCount - 10))
        /\ probeOut.t2 <= probeOut.t1
        /\ probeOut.t1 >= ThresholdFloor
        /\ probe.tabCount >= 25 <=> probeOut.t1 = ThresholdFloor

C31_Witness ==
    /\ pc = "probed"
    /\ probe.tabCount = 24
    /\ probe.more = 25
    /\ probeOut.t1 > ThresholdFloor
    /\ probeOut.t2 = ThresholdFloor

\* C32 as stated: for every item count of 3 or more the adaptive threshold is at
\* most CONTENT_SIMILARITY_THRESHOLD.
C32_NeverAboveBase ==
    (pc = "probed" /\ probe.tabCount >= 3) =>
        probeOut.t1 <= CONTENT_SIMILARITY_THRESHOLD

\* C32: for an item count of 10 or more the adaptive threshold is at most
\* CONTENT_SIMILARITY_THRESHOLD; for 3 to 9 items it is above it, by one hundredth
\* of it for each item short of 10.
C32_AtMostBaseFromTenItems ==
    (pc = "probed" /\ probe.tabCount >= 3) =>
        /\ probe.tabCount >= 10 => probeOut.t1 <= CONTENT_SIMILARITY_THRESHOLD
        /\ probe.tabCount < 10 =>
              probeOut.t1 * 100 =
                 CONTENT_SIMILARITY_THRESHOLD * (100 + (10 - probe.tabCount))

C32_Witness ==
    /\ pc = "probed"
    /\ probe.tabCount = 3
    /\ probe.more = 10
    /\ probeOut.t1 * 100 = CONTENT_SIMILARITY_THRESHOLD * 107
    /\ probeOut.t2 = CONTENT_SIMILARITY_THRESHOLD

\* the domain boost the rule gives to two items: D for equal domains, D/2 when
\* only the base domains are equal, 0 otherwise
DomainBoostRule(a, b) ==
    IF a.domain = b.domain THEN DOMAIN_AFFINITY_BOOST
    ELSE IF a.baseDomain = b.baseDomain THEN DOMAIN_AFFINITY_BOOST \div 2
    ELSE 0

\* the item's URL did not parse
NoDomain(a) == a.domain = <<"">> /\ a.baseDomain = <<"">>

\* the singleton Pass 1 is at has no domain and the n-th cluster formed so far
\* holds an item without domain
BothWithoutDomain(n) ==
    /\ NoDomain(singletons[k].items[1])
    /\ <<"">> \in Range(singletonGroups[n].domains)

\* C33: the score of two items without shared path tokens is their cosine plus D
\* for equal domains, D/2 when only the base domains are equal and 0 otherwise; two
\* items whose URLs both fail to parse have domain '' and get the full D; and in
\* Pass 1 a singleton without domain is scored with the boost against a cluster whose
\* domains contain '', and joins it when cosine plus D reaches the threshold.
C33_MissingDomainsMatch ==
    /\ [](pc \in {"hac", "consolidate", "pass1"} =>
            \A i, j \in 1..Len(tabVectors) : i # j =>
                /\ CommonTokens(tabVectors[i], tabVectors[j]) = <<>>
                /\ similarityMatrix[i][j] =
                      cosineSimilarity(tabVectors[i].embedding, tabVectors[j].embedding)
                      + DomainBoostRule(tabVectors[i], tabVectors[j])
                /\ (~tabs[i].url.valid /\ ~tabs[j].url.valid) =>
                      /\ NoDomain(tabVectors[i]) /\ NoDomain(tabVectors[j])
                      /\ similarityMatrix[i][j] =
                            cosineSimilarity(tabVectors[i].embedding, tabVectors[j].embedding)
                            + DOMAIN_AFFINITY_BOOST)
    /\ [][pc = "pass1" =>
            \A n \in 1..Len(singletonGroups) : BothWithoutDomain(n) =>
                /\ Pass1Score(n) =
                      cosineSimilarity(singletons[k].centroid, singletonGroups[n].centroid)
                      + DOMAIN_AFFINITY_BOOST
                /\ Pass1Score(n) >= SINGLETON_CLUSTER_THRESHOLD =>
                      \E m \in 1..Len(singletonGroups) :
                          Pass1Score(m) >= Pass1Score(n) /\ JoinedGroup(m)]_vars

C33_Witness ==
    /\ pc = "pass1end"
    /\ Len(singletons) = 5
    /\ \E n \in 1..Len(singletonGroups) :
          /\ Len(singletonGroups[n].items) = 2
          /\ \A m \in 1..2 : NoDomain(singletonGroups[n].items[m])
          /\ cosineSimilarity(singletonGroups[n].embeddings[1], singletonGroups[n].embeddings[2])
                < SINGLETON_CLUSTER_THRESHOLD
    /\ \E i, j \in 1..Len(tabVectors) :
          similarityMatrix[i][j] = DOMAIN_AFFINITY_BOOST \div 2
====
